---- MODULE Spec2Model ----
(***************************************************************************)
(* Model of ProxyScraperChecker (Go).                                      *)
(*                                                                         *)
(*   utils.go    RemoveDuplicates, ReadLines, AppendLine, WriteFile        *)
(*   scraper.go  normalizeProxy, isValidProxy                              *)
(*   checker.go  ProxyChecker: CheckProxies, checkHTTPProxy,               *)
(*               checkSOCKS5Proxy, testProxy, updateProgress,              *)
(*               displayProgress, formatProxyOutput                        *)
(*   main.go     main                                                      *)
(*                                                                         *)
(* The specifications share the variables:                                 *)
(*   Spec       one run of main, including the concurrent CheckProxies     *)
(*   SpecDedup  RemoveDuplicates applied to bounded lists                  *)
(*   SpecValid  isValidProxy applied to bounded raw lines                  *)
(*   SpecProbe  testProxy applied to the answers of the probe endpoints    *)
(*   SpecConfig LoadConfig followed by the flag assignments of main        *)
(*   SpecScrape one call of ScrapeProxies; SpecScrapeFair adds fairness    *)
(***************************************************************************)
EXTENDS Integers, Sequences, FiniteSets, TLC

VARIABLES
    \* ---- RemoveDuplicates driver (SpecDedup)
    ddIn,       \* the input list
    ddOut,      \* RemoveDuplicates(ddIn)
    ddOut2,     \* RemoveDuplicates(ddOut)
    ddPc,       \* "init" / "once" / "twice"
    \* ---- isValidProxy driver (SpecValid)
    vpRaw,      \* the raw line, a sequence of characters
    vpNorm,     \* what normalizeProxy returned for it
    vpOut,      \* the returned address
    vpOk,       \* the returned flag
    vpPc,       \* "init" / "done"
    \* ---- testProxy driver (SpecProbe)
    tpStrict,   \* config.Checker.StrictCheck
    tpFam,      \* the family of the candidate
    tpIn,       \* what the network answers to the probes
    tpOut,      \* the CheckResult built from what testProxy returned
    tpPc,       \* "init" / "done"
    \* ---- LoadConfig and the flags of main (SpecConfig)
    lcFile,     \* the checker section of config.yaml, 0 for an absent number
    lcFlags,    \* the values of --strict and --detailed
    lcCfg,      \* config.Checker
    lcPc,       \* "init" / "loaded" / "flags"
    \* ---- one call of ScrapeProxies (SpecScrape)
    scUrls,         \* len(urls)
    scConcurrent,   \* the parameter concurrent
    scPc,           \* position of ScrapeProxies
    srcPc,          \* source goroutine -> position
    srcFetched,     \* source goroutine -> <<"none" / "fail" / "ok", body read>>
    localProxies,   \* source goroutine -> its localProxies
    scProxies,      \* the shared slice proxies
    completedURLs,
    totalFound,
    scMu,           \* holder of mu: <<"src", i>>, TheReporter or NoOne
    semaphore,      \* values buffered in semaphore
    scWg,           \* the WaitGroup counter
    doneClosed,     \* close(done) was executed
    repPc,          \* position of the progress goroutine
    \* ---- one run of main (Spec)
    mainPc,         \* position of main / CheckProxies
    StrictCheck,    \* config.Checker.StrictCheck as CheckProxies sees it
    DetailedOutput, \* config.Checker.DetailedOutput as CheckProxies sees it
    Concurrent,     \* family -> ConcurrentHTTP / ConcurrentSOCKS5
    proxyLists,     \* family -> httpProxies / socks5Proxies of main
    file,           \* family -> lines of out/http.txt / out/socks5.txt
    total,          \* family -> totalHTTP / totalSOCKS5
    checked,        \* family -> checkedHTTP / checkedSOCKS5
    working,        \* family -> workingHTTP / workingSOCKS5
    ResultChan,     \* the buffered values of c.ResultChan
    closeCount,     \* number of close(c.ResultChan) executed
    progressMu,     \* holder of c.progressMu, or NoOne
    fileMu,         \* family -> holder of httpMu / socks5Mu, or NoOne
    sem,            \* family -> values buffered in semHTTP / semSOCKS5
    wg,             \* the WaitGroup counter
    gpc,            \* check goroutine -> position
    res,            \* check goroutine -> its CheckResult
    dpPc,           \* position of displayProgress
    consPc,         \* position of main's drain goroutine
    \* ---- observation of the run (written, never read, by the actions)
    attempts,       \* check goroutine -> calls of checkHTTPProxy/checkSOCKS5Proxy
    published,      \* check goroutine -> sends on ResultChan
    incs,           \* check goroutine -> family -> increments of checked
    appended,       \* check goroutine -> lines it appended to its output
    writeErr,       \* some WriteFile / AppendLine of the run returned an error
    sentOnClosed,   \* a send on the closed ResultChan happened (panic)
    pool            \* family -> the distinct strings among scraped and existing lines

ddVars == <<ddIn, ddOut, ddOut2, ddPc>>
vpVars == <<vpRaw, vpNorm, vpOut, vpOk, vpPc>>
cfgVars == <<StrictCheck, DetailedOutput, Concurrent>>
cntVars == <<total, checked, working>>
obsVars == <<attempts, published, incs, appended, writeErr, sentOnClosed, pool>>
runVars == <<mainPc, proxyLists, file, ResultChan, closeCount, progressMu, fileMu,
             sem, wg, gpc, res, dpPc, consPc>>
mainVars == <<cfgVars, cntVars, obsVars, runVars>>
tpVars == <<tpStrict, tpFam, tpIn, tpOut, tpPc>>
lcVars == <<lcFile, lcFlags, lcCfg, lcPc>>
scVars == <<scUrls, scConcurrent, scPc, srcPc, srcFetched, localProxies,
            scProxies, completedURLs, totalFound, scMu, semaphore, scWg,
            doneClosed, repPc>>
extraVars == <<tpVars, lcVars, scVars>>
vars == <<ddVars, vpVars, mainVars, extraVars>>

----------------------------------------------------------------------------
(* Generic helpers *)

RECURSIVE SeqsUpTo(_, _)
SeqsUpTo(S, n) ==
    IF n = 0 THEN {<<>>}
    ELSE LET shorter == SeqsUpTo(S, n - 1)
         IN  shorter \cup {Append(s, x) : s \in {t \in shorter : Len(t) = n - 1}, x \in S}

Range(s) == {s[i] : i \in 1..Len(s)}

----------------------------------------------------------------------------
(* utils.go: RemoveDuplicates *)

\* the loop of RemoveDuplicates from position i on, with the map `seen`
\* and the slice `result` built so far
RECURSIVE RemoveDuplicatesLoop(_, _, _, _)
RemoveDuplicatesLoop(proxies, i, seen, result) ==
    IF i > Len(proxies) THEN result
    ELSE IF proxies[i] \notin seen
         THEN RemoveDuplicatesLoop(proxies, i + 1, seen \cup {proxies[i]},
                                   Append(result, proxies[i]))
         ELSE RemoveDuplicatesLoop(proxies, i + 1, seen, result)

\* a faulty variant: new elements are put in front of the result
RECURSIVE RemoveDuplicatesPrependLoop(_, _, _, _)
RemoveDuplicatesPrependLoop(proxies, i, seen, result) ==
    IF i > Len(proxies) THEN result
    ELSE IF proxies[i] \notin seen
         THEN RemoveDuplicatesPrependLoop(proxies, i + 1, seen \cup {proxies[i]},
                                          <<proxies[i]>> \o result)
         ELSE RemoveDuplicatesPrependLoop(proxies, i + 1, seen, result)

RemoveDuplicatesPrepend(proxies) == RemoveDuplicatesPrependLoop(proxies, 1, {}, <<>>)

\* a faulty variant: the loop runs from the end, the last occurrence of an
\* element decides its place
RECURSIVE RemoveDuplicatesBackLoop(_, _, _, _)
RemoveDuplicatesBackLoop(proxies, i, seen, result) ==
    IF i < 1 THEN result
    ELSE IF proxies[i] \notin seen
         THEN RemoveDuplicatesBackLoop(proxies, i - 1, seen \cup {proxies[i]},
                                       <<proxies[i]>> \o result)
         ELSE RemoveDuplicatesBackLoop(proxies, i - 1, seen, result)

RemoveDuplicatesKeepLast(proxies) ==
    RemoveDuplicatesBackLoop(proxies, Len(proxies), {}, <<>>)

RemoveDuplicates(proxies) == RemoveDuplicatesLoop(proxies, 1, {}, <<>>)

----------------------------------------------------------------------------
(* SpecDedup: RemoveDuplicates on every list over DedupAlphabet of length  *)
(* at most MaxDedupLen, applied once and then again to its own result.     *)

MaxDedupLen == 4
DedupAlphabet == {"1.1.1.1:80", "2.2.2.2:8080", "3.3.3.3:8080"}

DedupIdle ==
    /\ ddIn = <<>> /\ ddOut = <<>> /\ ddOut2 = <<>> /\ ddPc = "idle"

InitDedup ==
    /\ ddIn \in SeqsUpTo(DedupAlphabet, MaxDedupLen)
    /\ ddOut = <<>>
    /\ ddOut2 = <<>>
    /\ ddPc = "init"

DedupOnce ==
    /\ ddPc = "init"
    /\ ddOut' = RemoveDuplicates(ddIn)
    /\ ddPc' = "once"
    /\ UNCHANGED <<ddIn, ddOut2>>
    /\ UNCHANGED <<vpVars, mainVars, extraVars>>

DedupTwice ==
    /\ ddPc = "once"
    /\ ddOut2' = RemoveDuplicates(ddOut)
    /\ ddPc' = "twice"
    /\ UNCHANGED <<ddIn, ddOut>>
    /\ UNCHANGED <<vpVars, mainVars, extraVars>>

----------------------------------------------------------------------------
(* scraper.go: strings are sequences of one-character strings *)

Digits == {"0", "1", "2", "3", "4", "5", "6", "7", "8", "9"}

HasPrefix(s, p) == Len(s) >= Len(p) /\ SubSeq(s, 1, Len(p)) = p

TrimPrefix(s, p) == IF HasPrefix(s, p) THEN SubSeq(s, Len(p) + 1, Len(s)) ELSE s

\* strings.Split(s, ":"): the pieces between the colons
RECURSIVE SplitColon(_)
SplitColon(s) ==
    IF \A i \in 1..Len(s) : s[i] # ":" THEN <<s>>
    ELSE LET k == CHOOSE i \in 1..Len(s) :
                      s[i] = ":" /\ \A j \in 1..(i - 1) : s[j] # ":"
         IN  <<SubSeq(s, 1, k - 1)>> \o SplitColon(SubSeq(s, k + 1, Len(s)))

\* number of consecutive digits of s from position i on
RECURSIVE DigitRun(_, _)
DigitRun(s, i) ==
    IF i > Len(s) \/ s[i] \notin Digits THEN 0 ELSE 1 + DigitRun(s, i + 1)

Min(a, b) == IF a < b THEN a ELSE b

SchemeHTTP   == <<"h", "t", "t", "p", ":", "/", "/">>
SchemeHTTPS  == <<"h", "t", "t", "p", "s", ":", "/", "/">>
SchemeSOCKS4 == <<"s", "o", "c", "k", "s", "4", ":", "/", "/">>
SchemeSOCKS5 == <<"s", "o", "c", "k", "s", "5", ":", "/", "/">>

\* \d{1,3} at position i followed by the literal c, n being the length of
\* the digit run at i: the position after c, or 0 when there is no match.
\* The group has to end where the digit run ends, because c is not a digit.
OctetEnd(s, i, c, n) ==
    IF n >= 1 /\ n <= 3 /\ i + n <= Len(s) /\ s[i + n] = c
    THEN i + n + 1 ELSE 0

\* position 0 stands for "the groups before did not match"
OctetThen(s, i, c) ==
    IF i = 0 THEN 0 ELSE OctetEnd(s, i, c, DigitRun(s, i))

\* the two submatches, p being the position of the port and np its length
IPPortCut(s, i, p, np) ==
    IF np = 0 THEN <<>>
    ELSE <<SubSeq(s, i, p - 2), SubSeq(s, p, p + np - 1)>>

IPPortFrom(s, i, p) ==
    IPPortCut(s, i, p, IF p = 0 THEN 0 ELSE DigitRun(s, p))

\* `(\d{1,3}\.\d{1,3}\.\d{1,3}\.\d{1,3}):(\d+)` anchored at position i:
\* <<ip, port>>, or <<>> when it does not match there
IPPortAt(s, i) ==
    IPPortFrom(s, i,
        OctetThen(s, OctetThen(s, OctetThen(s, OctetThen(s, i, "."), "."), "."), ":"))

\* the match at the first position of `starts`, a set of positions
FirstOf(starts) == CHOOSE i \in starts : \A j \in starts : i <= j

\* re.FindStringSubmatch: the leftmost match
FindIPPort(s) ==
    IF \A i \in 1..Len(s) : IPPortAt(s, i) = <<>> THEN <<>>
    ELSE IPPortAt(s, FirstOf({i \in 1..Len(s) : IPPortAt(s, i) # <<>>}))

IPCut(s, i, j4, n4) ==
    IF n4 = 0 THEN <<>> ELSE SubSeq(s, i, j4 + n4 - 1)

IPFrom(s, i, j4) ==
    IPCut(s, i, j4, IF j4 = 0 THEN 0 ELSE Min(DigitRun(s, j4), 3))

\* `\d{1,3}\.\d{1,3}\.\d{1,3}\.\d{1,3}` anchored at position i: the match,
\* or <<>>; the last group is greedy, up to three digits
IPAt(s, i) ==
    IPFrom(s, i, OctetThen(s, OctetThen(s, OctetThen(s, i, "."), "."), "."))

\* ipRe.FindString
FindIP(s) ==
    IF \A i \in 1..Len(s) : IPAt(s, i) = <<>> THEN <<>>
    ELSE IPAt(s, FirstOf({i \in 1..Len(s) : IPAt(s, i) # <<>>}))

PortFrom(s, i) == SubSeq(s, i, i + Min(DigitRun(s, i), 5) - 1)

\* portRe.FindString, `\d{1,5}`: the first digit of the text and up to four
\* digits that follow it
FindPort(s) ==
    IF \A i \in 1..Len(s) : s[i] \notin Digits THEN <<>>
    ELSE PortFrom(s, FirstOf({i \in 1..Len(s) : s[i] \in Digits}))

----------------------------------------------------------------------------
(* scraper.go: ProxyData, and the JSON payloads the model feeds to it.      *)
(* A document is a sequence of elements of the "data" array; an element is *)
(* a sequence of fields <<key, kind, value>> with kind "str" (a JSON       *)
(* string) or "num" (a JSON number).  JsonText is the text of a document.  *)

Quote == "\""

KeyIP         == <<"i", "p">>
KeyPort       == <<"p", "o", "r", "t">>
KeyProxyPort  == <<"p", "r", "o", "x", "y", "_", "p", "o", "r", "t">>
KeyPortNum    == <<"p", "o", "r", "t", "_", "n", "u", "m">>
KeyPortNumber == <<"p", "o", "r", "t", "_", "n", "u", "m", "b", "e", "r">>

JsonField(f) ==
    <<Quote>> \o f[1] \o <<Quote, ":">> \o
    (IF f[2] = "str" THEN <<Quote>> \o f[3] \o <<Quote>> ELSE f[3])

RECURSIVE JsonJoin(_)
JsonJoin(texts) ==
    IF Len(texts) = 0 THEN <<>>
    ELSE IF Len(texts) = 1 THEN texts[1]
    ELSE texts[1] \o <<",">> \o JsonJoin(Tail(texts))

JsonElem(e) ==
    <<"{">> \o JsonJoin([i \in 1..Len(e) |-> JsonField(e[i])]) \o <<"}">>

JsonText(doc) ==
    <<"{", Quote, "d", "a", "t", "a", Quote, ":", "[">> \o
    JsonJoin([i \in 1..Len(doc) |-> JsonElem(doc[i])]) \o <<"]", "}">>

\* the documents of the model
JsonIPFields ==
    { <<>>,
      <<<<KeyIP, "str", <<>>>>>>,
      <<<<KeyIP, "str", <<"1", ".", "2", ".", "3", ".", "4">>>>>>,
      <<<<KeyIP, "str", <<"1", ":", "2">>>>>> }

JsonPortFields ==
    LET opt(k, v) == {<<>>, <<<<k, "str", v>>>>}
    IN  { a \o b \o c \o d : a \in opt(KeyPort, <<"8", "1">>),
                             b \in opt(KeyProxyPort, <<"8", "2">>),
                             c \in opt(KeyPortNum, <<"8", "3">>),
                             d \in opt(KeyPortNumber, <<"8", "4">>) }
        \cup
        { <<<<KeyPort, "str", <<>>>>, <<KeyProxyPort, "str", <<"8", "2">>>>>>,
          <<<<KeyPort, "str", <<"9", "9", "9", "9", "9">>>>>>,
          <<<<KeyPort, "str", <<"1", "2", "3", "4", "5", "6">>>>>>,
          <<<<KeyPort, "str", <<"8", "a">>>>>>,
          <<<<KeyPort, "num", <<"8", "0", "8", "0">>>>>> }

JsonElems == {i \o p : i \in JsonIPFields, p \in JsonPortFields}

JsonSecondElem ==
    <<<<KeyIP, "str", <<"5", ".", "6", ".", "7", ".", "8">>>>,
      <<KeyPort, "str", <<"9", "0">>>>>>

JsonDocs ==
    {<<>>} \cup {<<e>> : e \in JsonElems} \cup {<<e, JsonSecondElem>> : e \in JsonElems}

----------------------------------------------------------------------------
(* encoding/json: json.Unmarshal into a ProxyData, as one pass over the    *)
(* text.  The state holds what the scanner expects next (mode), the open   *)
(* objects and arrays (stack: "top" is the ProxyData object, "data" its    *)
(* data array, "elem" an object of that array, "skipobj" and "skiparr" a   *)
(* value no field receives), the last key, the string being read, and the  *)
(* data slice: mem is its backing array and n its length, so that an       *)
(* element a shorter array cut off is found again when a later "data" key  *)
(* makes the slice grow.  err is a syntax error, which Unmarshal reports   *)
(* before it decodes anything; terr is a saved UnmarshalTypeError, after   *)
(* which decoding goes on.  A \u escape of a code point that has no        *)
(* spelling gives the character "U+" and its hexadecimal digits.  The      *)
(* text nested deeper than maxNestingDepth is a syntax error.  Invalid      *)
(* UTF-8 is not modelled.                                                  *)

\* the printable characters of ASCII in the order of their codes, U+0020 to
\* U+007E; the grave accent cannot stand in a TLA+ string
Ascii ==
    <<
      " ", "!", "\"", "#", "$", "%", "&", "'", "(", ")", "*", "+",
      ",", "-", ".", "/", "0", "1", "2", "3", "4", "5", "6", "7",
      "8", "9", ":", ";", "<", "=", ">", "?", "@", "A", "B", "C",
      "D", "E", "F", "G", "H", "I", "J", "K", "L", "M", "N", "O",
      "P", "Q", "R", "S", "T", "U", "V", "W", "X", "Y", "Z", "[",
      "\\", "]", "^", "_", "U+0060", "a", "b", "c", "d", "e", "f", "g",
      "h", "i", "j", "k", "l", "m", "n", "o", "p", "q", "r", "s",
      "t", "u", "v", "w", "x", "y", "z", "{", "|", "}", "~" >>

\* the control characters, U+0000 to U+001F
Ctl ==
    {"\t", "\n", "\f", "\r",
     "U+0000", "U+0001", "U+0002", "U+0003", "U+0004", "U+0005", "U+0006",
     "U+0007", "U+0008", "U+000B", "U+000E", "U+000F", "U+0010", "U+0011",
     "U+0012", "U+0013", "U+0014", "U+0015", "U+0016", "U+0017", "U+0018",
     "U+0019", "U+001A", "U+001B", "U+001C", "U+001D", "U+001E", "U+001F"}

HexChars ==
    <<"0", "1", "2", "3", "4", "5", "6", "7", "8", "9",
      "A", "B", "C", "D", "E", "F">>

\* the ASCII lower-case form of a character
Lower(c) ==
    IF \E i \in 34..59 : Ascii[i] = c
    THEN Ascii[(CHOOSE i \in 34..59 : Ascii[i] = c) + 32]
    ELSE c

Upper(c) ==
    IF \E i \in 66..91 : Ascii[i] = c
    THEN Ascii[(CHOOSE i \in 66..91 : Ascii[i] = c) - 32]
    ELSE c

IsHex(c) == \E i \in 1..16 : HexChars[i] = Upper(c)

HexVal(c) == (CHOOSE i \in 1..16 : HexChars[i] = Upper(c)) - 1

RECURSIVE HexStr(_, _)
HexStr(n, width) ==
    IF n = 0 /\ width <= 0 THEN ""
    ELSE HexStr(n \div 16, width - 1) \o HexChars[(n % 16) + 1]

\* the character of a code point
RuneChar(cp) ==
    IF cp \in 32..126 THEN Ascii[cp - 31]
    ELSE IF cp = 9 THEN "\t"
    ELSE IF cp = 10 THEN "\n"
    ELSE IF cp = 12 THEN "\f"
    ELSE IF cp = 13 THEN "\r"
    ELSE "U+" \o HexStr(cp, 4)

JsonSpace == {" ", "\t", "\r", "\n"}

KeyData == <<"d", "a", "t", "a">>

ZeroElem ==
    [IP |-> <<>>, Port |-> <<>>, ProxyPort |-> <<>>, PortNum |-> <<>>,
     PortNumber |-> <<>>]

ElemFields == {"IP", "Port", "ProxyPort", "PortNum", "PortNumber"}

Fold(key) == [i \in 1..Len(key) |-> Lower(key[i])]

\* the field of an element that a key names, matched without regard to
\* case, or "skip"
FieldName(key) ==
    CASE Fold(key) = KeyIP -> "IP"
      [] Fold(key) = KeyPort -> "Port"
      [] Fold(key) = KeyProxyPort -> "ProxyPort"
      [] Fold(key) = KeyPortNum -> "PortNum"
      [] Fold(key) = KeyPortNumber -> "PortNumber"
      [] OTHER -> "skip"

JsonStart ==
    [mode |-> "value", stack |-> <<>>, key |-> <<>>, acc |-> <<>>,
     isKey |-> FALSE, pend |-> 0, cp |-> 0, hexn |-> 0, lit |-> <<>>,
     kind |-> "", err |-> FALSE, terr |-> FALSE, mem |-> <<>>, n |-> 0,
     idx |-> 0]

JsonTop(st) == IF st.stack = <<>> THEN "" ELSE st.stack[Len(st.stack)]

\* what the value that comes next is decoded into
Target(st) ==
    CASE JsonTop(st) = "" -> "top"
      [] JsonTop(st) = "top" ->
            IF Fold(st.key) = KeyData THEN "data" ELSE "skip"
      [] JsonTop(st) = "data" -> "elem"
      [] JsonTop(st) = "elem" -> FieldName(st.key)
      [] OTHER -> "skip"

JsonFail(st) == [st EXCEPT !.err = TRUE]

\* array(): before an element is decoded the slice is made to hold it
Grow(st) ==
    IF JsonTop(st) = "data" /\ st.idx >= st.n
    THEN [st EXCEPT !.n = st.idx + 1,
                    !.mem = IF Len(st.mem) < st.idx + 1
                            THEN Append(st.mem, ZeroElem) ELSE st.mem]
    ELSE st

\* a value is complete
EndValue(st) ==
    [st EXCEPT !.idx = IF JsonTop(st) = "data" THEN st.idx + 1 ELSE st.idx,
               !.mode = IF st.stack = <<>> THEN "end" ELSE "after"]

\* literalStore: a string, number, boolean or null
Scalar(st, kind) ==
    EndValue(
        CASE kind = "str" /\ Target(st) \in ElemFields ->
                [st EXCEPT !.mem[st.idx + 1][Target(st)] = st.acc]
          [] kind = "null" /\ Target(st) = "data" ->
                [st EXCEPT !.mem = <<>>, !.n = 0]
          [] kind \in {"str", "num", "bool"} /\ Target(st) # "skip"
                /\ ~(kind = "str" /\ Target(st) \in ElemFields) ->
                [st EXCEPT !.terr = TRUE]
          [] OTHER -> st)

\* scanner.go: the deepest nesting of objects and arrays the scanner takes
maxNestingDepth == 10000

\* object() and array(): the value that begins is an object or an array;
\* pushParseState reports "exceeded max depth" for one opened at a level
\* above maxNestingDepth
Open(st, c) ==
    IF Len(st.stack) >= maxNestingDepth THEN JsonFail(st)
    ELSE IF c = "{"
    THEN [st EXCEPT
            !.stack = Append(st.stack,
                             IF Target(st) \in {"top", "elem"}
                             THEN Target(st) ELSE "skipobj"),
            !.terr = st.terr \/ Target(st) \in ElemFields \cup {"data"},
            !.mode = "objFirst"]
    ELSE [st EXCEPT
            !.stack = Append(st.stack,
                             IF Target(st) = "data" THEN "data"
                             ELSE "skiparr"),
            !.terr = st.terr
                     \/ Target(st) \in ElemFields \cup {"top", "elem"},
            !.idx = IF Target(st) = "data" THEN 0 ELSE st.idx,
            !.mode = "arrFirst"]

\* the end of array(): the slice is cut to the elements read, and an empty
\* array gives a new empty slice
Popped(st) ==
    IF JsonTop(st) # "data" THEN st
    ELSE IF st.idx = 0 THEN [st EXCEPT !.mem = <<>>, !.n = 0]
    ELSE [st EXCEPT !.n = IF st.idx < st.n THEN st.idx ELSE st.n]

Close(st, c) ==
    IF \/ c = "}" /\ JsonTop(st) \in {"top", "elem", "skipobj"}
       \/ c = "]" /\ JsonTop(st) \in {"data", "skiparr"}
    THEN EndValue([Popped(st) EXCEPT
                     !.stack = SubSeq(st.stack, 1, Len(st.stack) - 1)])
    ELSE JsonFail(st)

BeginString(st, isKey) ==
    [st EXCEPT !.mode = "str", !.acc = <<>>, !.isKey = isKey, !.pend = 0]

BeginLiteral(st, rest, kind) ==
    [st EXCEPT !.mode = "lit", !.lit = rest, !.kind = kind]

\* the first character of a value
BeginValue(st, c) ==
    CASE c \in {"{", "["} -> Open(Grow(st), c)
      [] c = Quote -> BeginString(Grow(st), FALSE)
      [] c = "-" -> [Grow(st) EXCEPT !.mode = "neg"]
      [] c = "0" -> [Grow(st) EXCEPT !.mode = "zero"]
      [] c \in Digits \ {"0"} -> [Grow(st) EXCEPT !.mode = "int"]
      [] c = "t" -> BeginLiteral(Grow(st), <<"r", "u", "e">>, "bool")
      [] c = "f" -> BeginLiteral(Grow(st), <<"a", "l", "s", "e">>, "bool")
      [] c = "n" -> BeginLiteral(Grow(st), <<"u", "l", "l">>, "null")
      [] OTHER -> JsonFail(st)

\* after a value: a comma, the end of the enclosing object or array, or
\* nothing but white space after the top-level value
AfterValue(st, c) ==
    IF c \in JsonSpace THEN st
    ELSE IF st.mode = "end" THEN JsonFail(st)
    ELSE IF c = ","
    THEN [st EXCEPT !.mode = IF JsonTop(st) \in {"data", "skiparr"}
                             THEN "value" ELSE "objKey"]
    ELSE IF c \in {"}", "]"} THEN Close(st, c)
    ELSE JsonFail(st)

\* a \uXXXX escape is complete.  A high surrogate that a low one follows
\* gives the one character of the pair; any other surrogate gives U+FFFD.
EndEscape(st, cp) ==
    CASE st.pend # 0 /\ cp \in 56320..57343 ->
            [st EXCEPT
               !.acc = SubSeq(st.acc, 1, Len(st.acc) - 1) \o
                       <<RuneChar(65536 + (st.pend - 55296) * 1024
                                  + (cp - 56320))>>,
               !.pend = 0, !.mode = "str"]
      [] cp \in 55296..56319 ->
            [st EXCEPT !.acc = Append(st.acc, "U+FFFD"), !.pend = cp,
                       !.mode = "str"]
      [] cp \in 56320..57343 /\ st.pend = 0 ->
            [st EXCEPT !.acc = Append(st.acc, "U+FFFD"), !.mode = "str"]
      [] OTHER ->
            [st EXCEPT !.acc = Append(st.acc, RuneChar(cp)), !.pend = 0,
                       !.mode = "str"]

StringStep(st, c) ==
    CASE st.mode = "str" /\ c = Quote ->
            IF st.isKey THEN [st EXCEPT !.key = st.acc, !.mode = "colon"]
            ELSE Scalar(st, "str")
      [] st.mode = "str" /\ c = "\\" -> [st EXCEPT !.mode = "esc"]
      [] st.mode = "str" /\ c \in Ctl -> JsonFail(st)
      [] st.mode = "str" /\ c \notin Ctl \cup {Quote, "\\"} ->
            [st EXCEPT !.acc = Append(st.acc, c), !.pend = 0]
      [] st.mode = "esc" /\ c \in {Quote, "\\", "/"} ->
            [st EXCEPT !.acc = Append(st.acc, c), !.pend = 0, !.mode = "str"]
      [] st.mode = "esc" /\ c \in {"b", "f", "n", "r", "t"} ->
            [st EXCEPT
               !.acc = Append(st.acc,
                              CASE c = "b" -> "U+0008" [] c = "f" -> "\f"
                                [] c = "n" -> "\n" [] c = "r" -> "\r"
                                [] c = "t" -> "\t"),
               !.pend = 0, !.mode = "str"]
      [] st.mode = "esc" /\ c = "u" ->
            [st EXCEPT !.mode = "u", !.cp = 0, !.hexn = 0]
      [] st.mode = "u" /\ IsHex(c) ->
            IF st.hexn = 3 THEN EndEscape(st, st.cp * 16 + HexVal(c))
            ELSE [st EXCEPT !.cp = st.cp * 16 + HexVal(c),
                            !.hexn = st.hexn + 1]
      [] OTHER -> JsonFail(st)

NumberModes == {"neg", "zero", "int", "dot", "frac", "e", "esign", "exp"}

\* the modes in which a number may end
NumberEnds == {"zero", "int", "frac", "exp"}

\* a number: -?(0|[1-9][0-9]*)(\.[0-9]+)?([eE][+-]?[0-9]+)?; the character
\* that ends it is read as what follows a value
NumberStep(st, c) ==
    CASE st.mode = "neg" /\ c = "0" -> [st EXCEPT !.mode = "zero"]
      [] st.mode = "neg" /\ c \in Digits \ {"0"} -> [st EXCEPT !.mode = "int"]
      [] st.mode = "int" /\ c \in Digits -> st
      [] st.mode \in {"zero", "int"} /\ c = "." -> [st EXCEPT !.mode = "dot"]
      [] st.mode \in {"dot", "frac"} /\ c \in Digits ->
            [st EXCEPT !.mode = "frac"]
      [] st.mode \in {"zero", "int", "frac"} /\ c \in {"e", "E"} ->
            [st EXCEPT !.mode = "e"]
      [] st.mode = "e" /\ c \in {"+", "-"} -> [st EXCEPT !.mode = "esign"]
      [] st.mode \in {"e", "esign", "exp"} /\ c \in Digits ->
            [st EXCEPT !.mode = "exp"]
      [] OTHER ->
            IF st.mode \in NumberEnds
            THEN AfterValue(Scalar(st, "num"), c)
            ELSE JsonFail(st)

\* a character where a value, a key, a colon or a closing bracket is
\* expected
TokenStep(st, c) ==
    IF c \in JsonSpace THEN st
    ELSE CASE st.mode = "value" -> BeginValue(st, c)
           [] st.mode = "arrFirst" ->
                 IF c = "]" THEN Close(st, c) ELSE BeginValue(st, c)
           [] st.mode = "objFirst" /\ c = "}" -> Close(st, c)
           [] st.mode \in {"objFirst", "objKey"} /\ c = Quote ->
                 BeginString(st, TRUE)
           [] st.mode = "colon" /\ c = ":" -> [st EXCEPT !.mode = "value"]
           [] OTHER -> JsonFail(st)

\* one character of the text
JsonStep(st, c) ==
    CASE st.mode \in {"str", "esc", "u"} -> StringStep(st, c)
      [] st.mode \in NumberModes -> NumberStep(st, c)
      [] st.mode \in {"after", "end"} -> AfterValue(st, c)
      [] st.mode = "lit" ->
            IF c # Head(st.lit) THEN JsonFail(st)
            ELSE IF Len(st.lit) = 1 THEN Scalar(st, st.kind)
            ELSE [st EXCEPT !.lit = Tail(st.lit)]
      [] OTHER -> TokenStep(st, c)

\* the end of the text
JsonEOF(st) ==
    IF st.mode = "end" THEN st
    ELSE IF st.mode \in NumberEnds /\ st.stack = <<>> THEN Scalar(st, "num")
    ELSE JsonFail(st)

RECURSIVE JsonScan(_, _, _)
JsonScan(text, i, st) ==
    IF st.err THEN st
    ELSE IF i > Len(text) THEN JsonEOF(st)
    ELSE JsonScan(text, i + 1, JsonStep(st, text[i]))

JsonResult(st) ==
    IF st.err THEN [err |-> TRUE, Data |-> <<>>]
    ELSE [err |-> st.terr, Data |-> SubSeq(st.mem, 1, st.n)]

\* json.Unmarshal([]byte(text), &data)
Unmarshal(text) == JsonResult(JsonScan(text, 1, JsonStart))

----------------------------------------------------------------------------
(* scraper.go: normalizeProxy and isValidProxy *)

\* the JSON branch of normalizeProxy, entered when Unmarshal succeeded with
\* a non-empty data array
JsonAddress(data) ==
    LET ip    == data[1].IP
        port1 == data[1].Port
        port2 == IF port1 = <<>> THEN data[1].ProxyPort ELSE port1
        port3 == IF port2 = <<>> THEN data[1].PortNum ELSE port2
        port4 == IF port3 = <<>> THEN data[1].PortNumber ELSE port3
        port  == IF port4 = <<>> THEN <<"8", "0">> ELSE port4
    IN  ip \o <<":">> \o port

\* a faulty variant: the separate search for an address and a digit run is
\* tried before the strict ip:port pattern
normalizeProxyFallbackFirst(raw) ==
    LET proxy == TrimPrefix(TrimPrefix(TrimPrefix(TrimPrefix(raw,
                     SchemeHTTP), SchemeHTTPS), SchemeSOCKS4), SchemeSOCKS5)
        data    == IF HasPrefix(proxy, <<"{">>) THEN Unmarshal(proxy)
                   ELSE [err |-> TRUE, Data |-> <<>>]
        matches == FindIPPort(proxy)
        ip      == FindIP(proxy)
        port    == FindPort(proxy)
    IN  IF ~data.err /\ Len(data.Data) > 0 THEN JsonAddress(data.Data)
        ELSE IF ip # <<>> /\ port # <<>> THEN ip \o <<":">> \o port
        ELSE IF matches # <<>> THEN matches[1] \o <<":">> \o matches[2]
        ELSE <<>>

normalizeProxy(raw) ==
    LET proxy == TrimPrefix(TrimPrefix(TrimPrefix(TrimPrefix(raw,
                     SchemeHTTP), SchemeHTTPS), SchemeSOCKS4), SchemeSOCKS5)
        data    == IF HasPrefix(proxy, <<"{">>) THEN Unmarshal(proxy)
                   ELSE [err |-> TRUE, Data |-> <<>>]
        matches == FindIPPort(proxy)
        ip      == FindIP(proxy)
        port    == FindPort(proxy)
    IN  IF ~data.err /\ Len(data.Data) > 0 THEN JsonAddress(data.Data)
        ELSE IF matches # <<>> THEN matches[1] \o <<":">> \o matches[2]
        ELSE IF ip # <<>> /\ port # <<>> THEN ip \o <<":">> \o port
        ELSE <<>>

\* a faulty variant of the port check: the length test is missing
PortOKNoLength(port) == \A i \in 1..Len(port) : port[i] \in Digits

\* the port check of isValidProxy, lines 105-113
PortOK(port) ==
    /\ Len(port) # 0
    /\ Len(port) <= 5
    /\ \A i \in 1..Len(port) : port[i] \in Digits

\* <<address, ok>>
isValidProxy(proxy) ==
    IF proxy = <<>> THEN <<<<>>, FALSE>>
    ELSE LET normalized == normalizeProxy(proxy)
             parts      == SplitColon(normalized)
         IN  IF normalized = <<>> THEN <<<<>>, FALSE>>
             ELSE IF Len(parts) # 2 THEN <<<<>>, FALSE>>
             ELSE IF ~PortOK(parts[2]) THEN <<<<>>, FALSE>>
             ELSE <<normalized, TRUE>>

----------------------------------------------------------------------------
(* SpecValid: isValidProxy on a bounded set of raw lines: an optional      *)
(* scheme or junk prefix, an optional dotted group, a separator, a port of *)
(* up to MaxPortDigits digits and a suffix; and the JSON payloads of       *)
(* JsonDocs, bare, behind a scheme, and followed by trailing text, and of  *)
(* JsonOtherTexts.                                                         *)

MaxPortDigits == 6

RECURSIVE Nines(_)
Nines(n) == IF n = 0 THEN <<>> ELSE <<"9">> \o Nines(n - 1)

IP1234 == <<"1", ".", "2", ".", "3", ".", "4">>

RawPrefixes ==
    { <<>>, SchemeHTTP, SchemeSOCKS5, SchemeHTTPS \o SchemeSOCKS4, <<"x", " ">>,
      Nines(MaxPortDigits) \o <<" ">> }

RawIPs ==
    { <<>>, IP1234, <<"1", "2", "3", "4", ".", "5", ".", "6", ".", "7">>,
      <<"1", ".", "2", ".", "3">> }

RawSeps == { <<>>, <<":">>, <<" ">>, <<":", ":">> }

RawPorts == {Nines(n) : n \in 0..MaxPortDigits} \cup {<<"8", "a">>}

RawSuffixes == { <<>>, <<":", "1">>, <<"x">> }

RawTexts ==
    { pre \o ip \o sep \o port \o suf :
        pre \in RawPrefixes, ip \in RawIPs, sep \in RawSeps,
        port \in RawPorts, suf \in RawSuffixes }

\* payloads outside JsonDocs: white space between the tokens, keys in upper
\* case, an empty object, a key no field has, and a second "data" key
JsonOtherTexts ==
    {
      <<"{", "\"", "d", "a", "t", "a", "\"", ":", " ", "[", "{", "\"", "i",
        "p", "\"", ":", " ", "\"", "1", ".", "2", ".", "3", ".", "4", "\"",
        ",", " ", "\"", "p", "o", "r", "t", "\"", ":", " ", "\"", "8", "1",
        "\"", "}", "]", "}">>,
      <<"{", "\"", "d", "a", "t", "a", "\"", ":", "[", "{", "\"", "I", "P",
        "\"", ":", "\"", "1", ".", "2", ".", "3", ".", "4", "\"", ",",
        "\"", "P", "o", "r", "t", "\"", ":", "\"", "8", "1", "\"", "}",
        "]", "}">>,
      <<"{", "}">>,
      <<"{", "\"", "d", "a", "t", "a", "\"", ":", "[", "{", "\"", "i", "p",
        "\"", ":", "\"", "9", ".", "9", ".", "9", ".", "9", "\"", ",",
        "\"", "p", "o", "r", "t", "\"", ":", "\"", "1", "0", "8", "0",
        "\"", ",", "\"", "x", "\"", ":", "[", "1", ",", "{", "\"", "y",
        "\"", ":", "n", "u", "l", "l", "}", "]", "}", "]", "}">>,
      <<"{", "\"", "d", "a", "t", "a", "\"", ":", "[", "{", "\"", "i", "p",
        "\"", ":", "\"", "1", ".", "2", ".", "3", ".", "4", "\"", "}", "]",
        ",", "\"", "d", "a", "t", "a", "\"", ":", "[", "{", "\"", "p", "o",
        "r", "t", "\"", ":", "\"", "8", "2", "\"", "}", "]", "}">> }

RawJson ==
    {JsonText(d) : d \in JsonDocs}
    \cup {SchemeHTTP \o JsonText(d) : d \in JsonDocs}
    \cup {JsonText(d) \o <<" ">> \o IP1234 \o <<":", "8", "0">> : d \in JsonDocs}
    \cup JsonOtherTexts

RawLines == RawTexts \cup RawJson

ValidIdle ==
    /\ vpRaw = <<>> /\ vpNorm = <<>> /\ vpOut = <<>> /\ vpOk = FALSE
    /\ vpPc = "idle"

InitValid ==
    /\ vpRaw \in RawLines
    /\ vpNorm = <<>>
    /\ vpOut = <<>>
    /\ vpOk = FALSE
    /\ vpPc = "init"

Validate ==
    /\ vpPc = "init"
    /\ LET r == isValidProxy(vpRaw)
       IN  vpOut' = r[1] /\ vpOk' = r[2]
    /\ vpNorm' = normalizeProxy(vpRaw)
    /\ vpPc' = "done"
    /\ UNCHANGED vpRaw
    /\ UNCHANGED <<ddVars, mainVars, extraVars>>

----------------------------------------------------------------------------
(* checker.go: CheckResult, testProxy, formatProxyOutput *)

Fam == {"HTTP", "SOCKS5"}

\* strings.Contains
Contains(v, sub) ==
    \E i \in 1..(Len(v) + 1) :
        i + Len(sub) - 1 <= Len(v) /\ SubSeq(v, i, i + Len(sub) - 1) = sub

\* decimal digits of a natural number
RECURSIVE Itoa(_)
Itoa(n) ==
    LET d == <<"0", "1", "2", "3", "4", "5", "6", "7", "8", "9">>[(n % 10) + 1]
    IN  IF n < 10 THEN <<d>> ELSE Itoa(n \div 10) \o <<d>>

\* the fraction of a second, three digits, trailing zeros dropped
Frac(ms) ==
    LET d3 == (IF ms < 100 THEN <<"0">> ELSE <<>>) \o
              (IF ms < 10 THEN <<"0">> ELSE <<>>) \o Itoa(ms)
    IN  IF ms % 100 = 0 THEN SubSeq(d3, 1, 1)
        ELSE IF ms % 10 = 0 THEN SubSeq(d3, 1, 2) ELSE d3

\* result.Speed.Round(time.Millisecond).String() for a duration of ms
\* milliseconds, below one minute
DurationString(ms) ==
    IF ms = 0 THEN <<"0", "s">>
    ELSE IF ms < 1000 THEN Itoa(ms) \o <<"m", "s">>
    ELSE Itoa(ms \div 1000) \o
         (IF ms % 1000 = 0 THEN <<>> ELSE <<".">> \o Frac(ms % 1000)) \o <<"s">>

StrictLimitMs == 2000

NoLocation == <<>>

\* what the network gives one candidate: the answers to the probes of
\* testProxy and the time they take
\*   doErr    client.Do of the basic probe fails (transport error, timeout)
\*   status   status code of the basic probe
\*   geo      "err" (Do / ReadAll fails), "fail" (body is not JSON or its
\*            status is not "success"), "success"
\*   query, country, city   fields of the geolocation answer
\*   hdr      "err" (Do / ReadAll fails), "badjson", "ok"
\*   headers  the values of the echoed headers
\*   ms       elapsed time in milliseconds
Outcome(doErr, status, geo, query, country, city, hdr, headers, ms) ==
    [doErr |-> doErr, status |-> status, geo |-> geo, query |-> query,
     country |-> country, city |-> city, hdr |-> hdr, headers |-> headers,
     ms |-> ms]

Failed == [working |-> FALSE, proxyIP |-> <<>>, speed |-> 0,
           anonymous |-> FALSE, location |-> NoLocation]

\* a faulty variant: the basic check takes any answer for a success
testProxyAnyStatus(strict, o) ==
    IF ~strict
    THEN IF o.doErr THEN Failed
         ELSE [working |-> TRUE, proxyIP |-> <<>>, speed |-> o.ms,
               anonymous |-> FALSE, location |-> NoLocation]
    ELSE IF o.geo # "success" THEN Failed
         ELSE IF o.hdr # "ok" THEN Failed
         ELSE [working   |-> (o.ms < StrictLimitMs /\ o.query # <<>>),
               proxyIP   |-> o.query,
               speed     |-> o.ms,
               anonymous |-> ~(\E v \in o.headers : Contains(v, o.query)),
               location  |-> <<[Country |-> o.country, City |-> o.city]>>]

\* a faulty variant: a strict check of exactly two seconds passes
testProxyLimitInclusive(strict, o) ==
    IF ~strict
    THEN IF o.doErr THEN Failed
         ELSE [working |-> (o.status = 200), proxyIP |-> <<>>, speed |-> o.ms,
               anonymous |-> FALSE, location |-> NoLocation]
    ELSE IF o.geo # "success" THEN Failed
         ELSE IF o.hdr # "ok" THEN Failed
         ELSE [working   |-> (o.ms <= StrictLimitMs /\ o.query # <<>>),
               proxyIP   |-> o.query,
               speed     |-> o.ms,
               anonymous |-> ~(\E v \in o.headers : Contains(v, o.query)),
               location  |-> <<[Country |-> o.country, City |-> o.city]>>]

\* testProxy: (working, proxyIP, speed, anonymous, location)
testProxy(strict, o) ==
    IF ~strict
    THEN IF o.doErr THEN Failed
         ELSE [working |-> (o.status = 200), proxyIP |-> <<>>, speed |-> o.ms,
               anonymous |-> FALSE, location |-> NoLocation]
    ELSE IF o.geo # "success" THEN Failed
         ELSE IF o.hdr # "ok" THEN Failed
         ELSE [working   |-> (o.ms < StrictLimitMs /\ o.query # <<>>),
               proxyIP   |-> o.query,
               speed     |-> o.ms,
               anonymous |-> ~(\E v \in o.headers : Contains(v, o.query)),
               location  |-> <<[Country |-> o.country, City |-> o.city]>>]

CheckResult(proxyStr, fam, t) ==
    [Proxy |-> proxyStr, Working |-> t.working, Type |-> fam,
     ProxyIP |-> t.proxyIP, Speed |-> t.speed, Anonymous |-> t.anonymous,
     Location |-> t.location]

HeaderLine == 
    <<"P", "r", "o", "x", "y", "|", "I", "P", "|", "L", "o", "c", "a", "t", "i", "o", "n", "|", "R", "e", "s", "p", "o", "n", "s", "e", " ", "T", "i", "m", "e", "|", "A", "n", "o", "n", "y", "m", "o", "u", "s">>

\* the pipe-delimited record of formatProxyOutput, lines 181-203
DetailedRecord(result) ==
    LET anonymous == IF result.Anonymous THEN <<"Y", "e", "s">>
                     ELSE <<"N", "o">>
        location  == IF result.Location = NoLocation
                     THEN <<"U", "n", "k", "n", "o", "w", "n">>
                     ELSE IF result.Location[1].City # <<>>
                     THEN result.Location[1].City \o <<",", " ">> \o
                          result.Location[1].Country
                     ELSE result.Location[1].Country
    IN  result.Proxy \o <<"|">> \o result.ProxyIP \o <<"|">> \o location
        \o <<"|">> \o DurationString(result.Speed) \o <<"|">> \o anonymous

\* a faulty variant: the record is written whenever detailed output is on
formatProxyOutputDetailedOnly(strict, detailed, result) ==
    IF ~detailed THEN result.Proxy ELSE DetailedRecord(result)

formatProxyOutput(strict, detailed, result) ==
    IF ~strict \/ ~detailed THEN result.Proxy
    ELSE LET anonymous == IF result.Anonymous THEN <<"Y", "e", "s">>
                          ELSE <<"N", "o">>
             location  == IF result.Location = NoLocation
                          THEN <<"U", "n", "k", "n", "o", "w", "n">>
                          ELSE IF result.Location[1].City # <<>>
                          THEN result.Location[1].City \o <<",", " ">> \o
                               result.Location[1].Country
                          ELSE result.Location[1].Country
         IN  result.Proxy \o <<"|">> \o result.ProxyIP \o <<"|">> \o location
             \o <<"|">> \o DurationString(result.Speed) \o <<"|">> \o anonymous

----------------------------------------------------------------------------
(* utils.go: ReadLines, and net/url as checkHTTPProxy uses it *)

\* the white space of unicode.IsSpace, which strings.TrimSpace strips: tab,
\* line feed, vertical tab, form feed, carriage return, space, U+0085,
\* U+00A0, U+1680, U+2000 to U+200A, U+2028, U+2029, U+202F, U+205F and
\* U+3000. A code point that has no spelling in a TLA+ string is the one
\* character written "U+" and its four hexadecimal digits.
WhiteSpace ==
    {"\t", "\n", "U+000B", "\f", "\r", " ", "U+0085", "U+00A0", "U+1680",
     "U+2000", "U+2001", "U+2002", "U+2003", "U+2004", "U+2005", "U+2006",
     "U+2007", "U+2008", "U+2009", "U+200A", "U+2028", "U+2029", "U+202F",
     "U+205F", "U+3000"}

RECURSIVE TrimSpace(_)
TrimSpace(s) ==
    IF s # <<>> /\ s[1] \in WhiteSpace THEN TrimSpace(Tail(s))
    ELSE IF s # <<>> /\ s[Len(s)] \in WhiteSpace
    THEN TrimSpace(SubSeq(s, 1, Len(s) - 1))
    ELSE s

\* bufio.MaxScanTokenSize, the size the buffer of a bufio.Scanner grows to
MaxScanTokenSize == 65536

\* the characters of one byte and of two bytes in UTF-8
OneByte == {RuneChar(cp) : cp \in 0..127}

TwoBytes == {RuneChar(cp) : cp \in 128..2047}

\* the number of bytes of a character in UTF-8; the characters above U+FFFF
\* are written with more than four hexadecimal digits
Utf8Len(c) ==
    IF c \in OneByte THEN 1
    ELSE IF c \in TwoBytes THEN 2
    ELSE IF Len(c) > 6 THEN 4
    ELSE 3

\* the number of bytes of a line: one for each character and one more for
\* each that takes two or more, three or more, four
ByteLen(line) ==
    Len(line)
    + Cardinality({i \in 1..Len(line) : Utf8Len(line[i]) >= 2})
    + Cardinality({i \in 1..Len(line) : Utf8Len(line[i]) >= 3})
    + Cardinality({i \in 1..Len(line) : Utf8Len(line[i]) = 4})

\* scanner.Scan() stops with bufio.ErrTooLong at a line that fills the
\* buffer before its end is found
TooLong(line) ==
    /\ 4 * Len(line) >= MaxScanTokenSize
    /\ ByteLen(line) >= MaxScanTokenSize

\* lines 21-26: the lines of the file, trimmed, without the empty ones and
\* the comments
RECURSIVE ScannedLines(_)
ScannedLines(content) ==
    IF content = <<>> THEN <<>>
    ELSE LET line == TrimSpace(content[1])
         IN  IF line # <<>> /\ ~HasPrefix(line, <<"#">>)
             THEN <<line>> \o ScannedLines(Tail(content))
             ELSE ScannedLines(Tail(content))

\* ReadLines on a file given as the sequence of its lines. ioErr: os.Open
\* fails or a read of the file fails. With an error no line is returned.
ReadLines(content, ioErr) ==
    IF ioErr \/ \E i \in 1..Len(content) : TooLong(content[i])
    THEN [lines |-> <<>>, err |-> TRUE]
    ELSE [lines |-> ScannedLines(content), err |-> FALSE]

Letters ==
    {"a", "b", "c", "d", "e", "f", "g", "h", "i", "j", "k", "l", "m", "n", "o",
     "p", "q", "r", "s", "t", "u", "v", "w", "x", "y", "z",
     "A", "B", "C", "D", "E", "F", "G", "H", "I", "J", "K", "L", "M", "N", "O",
     "P", "Q", "R", "S", "T", "U", "V", "W", "X", "Y", "Z"}

\* the characters of ASCII; every other character is made of bytes above
\* 0x7F
AsciiChars == {Ascii[i] : i \in 1..Len(Ascii)} \cup Ctl \cup {"U+007F"}

\* the characters shouldEscape leaves unescaped in a host (encodeHost)
HostAllowed ==
    Letters \cup Digits \cup
    {"!", "$", "&", "'", "(", ")", "*", "+", ",", ";", "=", ":", "[", "]",
     "<", ">", Quote, "-", "_", ".", "~"}

\* validUserinfo
UserinfoAllowed ==
    Letters \cup Digits \cup
    {"-", ".", "_", ":", "~", "!", "$", "&", "'", "(", ")", "*", "+", ",",
     ";", "=", "%", "@"}

\* strings.Index and strings.LastIndex of a character, counted from 1; 0
\* when it does not occur
IndexOf(s, c) ==
    IF \E i \in 1..Len(s) : s[i] = c
    THEN CHOOSE i \in 1..Len(s) : s[i] = c /\ \A j \in 1..(i - 1) : s[j] # c
    ELSE 0

LastIndexOf(s, c) ==
    IF \E i \in 1..Len(s) : s[i] = c
    THEN CHOOSE i \in 1..Len(s) :
            s[i] = c /\ \A j \in (i + 1)..Len(s) : s[j] # c
    ELSE 0

\* the text before position i, all of it when i is 0, and the text after
\* position i, none when i is 0
Before(s, i) == IF i = 0 THEN s ELSE SubSeq(s, 1, i - 1)

After(s, i) == IF i = 0 THEN <<>> ELSE SubSeq(s, i + 1, Len(s))

\* the position i of s does not begin a well-formed %XX
BadEscapeAt(s, i) ==
    i + 2 > Len(s) \/ ~IsHex(s[i + 1]) \/ ~IsHex(s[i + 2])

\* unescape fails in a mode that accepts every escape: a path, a fragment,
\* a user name or a password
BadEscape(s) == \E i \in 1..Len(s) : s[i] = "%" /\ BadEscapeAt(s, i)

\* unescape(s, encodeHost) fails: a malformed escape, an escape of an ASCII
\* byte other than %25, or an ASCII character a host must not hold
HostUnescapeErr(s) ==
    \E i \in 1..Len(s) :
        IF s[i] = "%"
        THEN \/ BadEscapeAt(s, i)
             \/ HexVal(s[i + 1]) < 8 /\ <<s[i + 1], s[i + 2]>> # <<"2", "5">>
        ELSE s[i] \in AsciiChars \ HostAllowed

\* unescape(s, encodeZone) fails: an escape in a zone must give a space or
\* a byte a host may hold
ZoneUnescapeErr(s) ==
    \E i \in 1..Len(s) :
        IF s[i] = "%"
        THEN \/ BadEscapeAt(s, i)
             \/ /\ <<s[i + 1], s[i + 2]>> # <<"2", "5">>
                /\ 16 * HexVal(s[i + 1]) + HexVal(s[i + 2]) # 32
                /\ RuneChar(16 * HexVal(s[i + 1]) + HexVal(s[i + 2]))
                       \notin HostAllowed
        ELSE s[i] \in AsciiChars \ HostAllowed

\* validOptionalPort: empty, or a colon and digits only
validOptionalPort(port) ==
    port = <<>> \/ (port[1] = ":" /\ \A i \in 2..Len(port) : port[i] \in Digits)

\* the position of "%25" in s, or 0
ZoneIndex(s) ==
    IF \E i \in 1..(Len(s) - 2) : SubSeq(s, i, i + 2) = <<"%", "2", "5">>
    THEN CHOOSE i \in 1..(Len(s) - 2) :
            /\ SubSeq(s, i, i + 2) = <<"%", "2", "5">>
            /\ \A j \in 1..(i - 1) : SubSeq(s, j, j + 2) # <<"%", "2", "5">>
    ELSE 0

\* parseHost on a host that begins with '[', its last ']' at position i (0:
\* none) and the "%25" of its zone at position z of host[:i] (0: none)
BracketHostErr(host, i, z) ==
    \/ i = 0
    \/ \E colonPort \in {After(host, i)} : ~validOptionalPort(colonPort)
    \/ z = 0 /\ HostUnescapeErr(host)
    \/ /\ z # 0
       /\ \E host1 \in {SubSeq(host, 1, z - 1)}, host2 \in {SubSeq(host, z, i - 1)},
             host3 \in {SubSeq(host, i, Len(host))} :
              \/ HostUnescapeErr(host1)
              \/ ZoneUnescapeErr(host2)
              \/ HostUnescapeErr(host3)

\* parseHost on a host that does not begin with '[', its last ':' at
\* position c (0: none)
PlainHostErr(host, c) ==
    \/ c # 0 /\ \E i \in (c + 1)..Len(host) : host[i] \notin Digits
    \/ HostUnescapeErr(host)

\* parseHost returns an error
HostErr(host) ==
    IF HasPrefix(host, <<"[">>)
    THEN \E i \in {LastIndexOf(host, "]")} :
            \E z \in {ZoneIndex(Before(host, i))} : BracketHostErr(host, i, z)
    ELSE \E c \in {LastIndexOf(host, ":")} : PlainHostErr(host, c)

\* parseAuthority on an authority whose last '@' is at position i (0:
\* none): the host after it, then the userinfo before it
UserHostErr(authority, i) ==
    \/ \E host \in {IF i = 0 THEN authority ELSE After(authority, i)} :
          HostErr(host)
    \/ /\ i # 0
       /\ \E userinfo \in {Before(authority, i)} :
              \/ \E k \in 1..Len(userinfo) : userinfo[k] \notin UserinfoAllowed
              \/ BadEscape(userinfo)

\* parseAuthority returns an error
UrlAuthErr(authority) ==
    \E i \in {LastIndexOf(authority, "@")} : UserHostErr(authority, i)

\* the text between "http:" and the first '?': the authority up to the
\* first '/', then setPath on what follows
UrlRestErr(rest) ==
    \E authority \in {Before(rest, IndexOf(rest, "/"))},
       path \in {After(rest, IndexOf(rest, "/"))} :
        UrlAuthErr(authority) \/ BadEscape(path)

\* parse("http://" + u) returns an error: a control byte anywhere in u,
\* or the text before the first '?'
UrlParseRawErr(u) ==
    \/ \E i \in 1..Len(u) : u[i] \in Ctl \cup {"U+007F"}
    \/ \E rest \in {Before(u, IndexOf(u, "?"))} : UrlRestErr(rest)

\* url.Parse("http://" + proxyStr) returns an error: from parse on the text
\* before the first '#', or from setFragment on the text after it
UrlParseErr(proxyStr) ==
    \E u \in {Before(proxyStr, IndexOf(proxyStr, "#"))},
       frag \in {After(proxyStr, IndexOf(proxyStr, "#"))} :
        UrlParseRawErr(u) \/ BadEscape(frag)

\* the construction step of checkHTTPProxy / checkSOCKS5Proxy fails.
\* proxy.SOCKS5 (golang.org/x/net) returns a nil error for every address.
ConstructErr(fam, proxyStr) ==
    IF fam = "HTTP" THEN UrlParseErr(proxyStr) ELSE FALSE

----------------------------------------------------------------------------
(* Inputs of one run of main *)

MaxScraped    == 2   \* candidates ScrapeProxies returns for the HTTP family
MaxHTTP       == 2   \* distinct HTTP candidates of a run
MaxSOCKS5     == 1   \* distinct SOCKS5 candidates of a run
MaxCandidates == 2   \* distinct candidates of a run, both families
MaxConcurrent == 2   \* concurrent_http / concurrent_socks5
ResultChanCap == 100

A1 == <<"1", ".", "1", ".", "1", ".", "1", ":", "8", "0">>
A2 == <<"2", ".", "2", ".", "2", ".", "2", ":", "8", "0">>
S1 == <<"3", ".", "3", ".", "3", ".", "3", ":", "9", "0">>
EgressIP == <<"9", ".", "9", ".", "9", ".", "9">>
CommentLine == <<"#", " ", "o", "l", "d">>

\* a record line left in out/http.txt by an earlier strict+detailed run
OldRecord ==
    formatProxyOutput(TRUE, TRUE,
        [Proxy |-> A1, Working |-> TRUE, Type |-> "HTTP", ProxyIP |-> EgressIP,
         Speed |-> 1500, Anonymous |-> TRUE,
         Location |-> <<[Country |-> <<"F", "r", "a", "n", "c", "e">>, City |-> <<"P", "a", "r", "i", "s">>]>>])

\* the comment behind a tab and an ideographic space, and A1 between a
\* space and a tab with a line separator
IndentedComment == <<"\t", "U+3000">> \o CommentLine

PaddedA1 == <<" ">> \o A1 \o <<"\t", "U+2028">>

\* what ScrapeProxies returned; A1 names the first HTTP candidate scraped
ScrapedChoices ==
    [HTTP   |-> {s \in SeqsUpTo({A1, A2}, MaxScraped) : s = <<>> \/ s[1] = A1},
     SOCKS5 |-> {<<>>, <<S1>>}]

ExistingChoices ==
    [HTTP   |-> {<<>>, <<A2>>, <<IndentedComment, PaddedA1>>,
                 <<HeaderLine, OldRecord>>},
     SOCKS5 |-> {<<>>, <<S1>>}]

\* the answers of the network to the probes of one candidate: in basic
\* mode a transport error or a 200; in strict mode two good probes in
\* 1999 ms, or two good probes in 2000 ms with a header that shows the
\* egress address
ProbeOutcomes(strict) ==
    IF ~strict
    THEN { Outcome(TRUE, 0, "err", <<>>, <<>>, <<>>, "err", {}, 0),
           Outcome(FALSE, 200, "err", <<>>, <<>>, <<>>, "err", {}, 100) }
    ELSE { Outcome(FALSE, 0, "success", EgressIP, <<"F", "r", "a", "n", "c", "e">>, <<"P", "a", "r", "i", "s">>, "ok", {}, 1999),
           Outcome(FALSE, 0, "success", EgressIP, <<"F", "r", "a", "n", "c", "e">>, <<>>, "ok", {EgressIP}, 2000) }

MaxOf == [HTTP |-> MaxHTTP, SOCKS5 |-> MaxSOCKS5]

\* the check goroutines: <<family, index in the family's list>>
GIDs == {g \in Fam \X (1..(MaxHTTP + MaxSOCKS5)) : g[2] <= MaxOf[g[1]]}

NoOne == <<"none", 0>>

Live(g) == g[2] <= Len(proxyLists[g[1]])

NoResult == CheckResult(<<>>, "HTTP", Failed)

----------------------------------------------------------------------------
(* SpecProbe: checkHTTPProxy / checkSOCKS5Proxy from the call of testProxy *)
(* on, for a candidate whose transport was constructed, on every           *)
(* combination of answers of the probe endpoints.                          *)

France == <<"F", "r", "a", "n", "c", "e">>
Paris  == <<"P", "a", "r", "i", "s">>
OtherIP == <<"8", ".", "8", ".", "8", ".", "8">>

ProbeStatuses == {200, 204, 301, 404, 500}

ProbeTimes == {100, StrictLimitMs - 1, StrictLimitMs, StrictLimitMs + 1}

ProbeInputs ==
    { Outcome(doErr, status, geo, query, France, city, hdr, headers, ms) :
        doErr \in BOOLEAN, status \in ProbeStatuses,
        geo \in {"err", "fail", "success"}, query \in {<<>>, EgressIP},
        city \in {<<>>, Paris}, hdr \in {"err", "badjson", "ok"},
        headers \in {{}, {OtherIP}, {OtherIP, <<"x", " ">> \o EgressIP}},
        ms \in ProbeTimes }

ProbeIdle ==
    /\ tpStrict = FALSE /\ tpFam = "HTTP" /\ tpIn = <<>> /\ tpOut = <<>>
    /\ tpPc = "idle"

InitProbe ==
    /\ tpStrict \in BOOLEAN
    /\ tpFam \in Fam
    /\ tpIn \in ProbeInputs
    /\ tpOut = <<>>
    /\ tpPc = "init"

\* checkHTTPProxy lines 406-415, checkSOCKS5Proxy lines 449-458
Probe ==
    /\ tpPc = "init"
    /\ tpOut' = CheckResult(A1, tpFam, testProxy(tpStrict, tpIn))
    /\ tpPc' = "done"
    /\ UNCHANGED <<tpStrict, tpFam, tpIn>>
    /\ UNCHANGED <<ddVars, vpVars, mainVars, lcVars, scVars>>

----------------------------------------------------------------------------
(* SpecConfig: the checker section of the configuration, from LoadConfig  *)
(* to the assignments of the command-line flags in main.  Durations are in *)
(* seconds; a number absent from config.yaml is 0 after yaml.Unmarshal.    *)

StrictTimeout        == 3
NormalTimeout        == 10
StrictConnectTimeout == 3
NormalConnectTimeout == 5
DefaultConcurrent    == 100

\* config.go lines 66-102: the defaults of the checker section
LoadConfigChecker(c) ==
    LET timeout == IF c.Timeout # 0 THEN c.Timeout
                   ELSE IF c.StrictCheck THEN StrictTimeout ELSE NormalTimeout
        connect == IF c.ConnectTimeout # 0 THEN c.ConnectTimeout
                   ELSE IF c.StrictCheck THEN StrictConnectTimeout
                   ELSE NormalConnectTimeout
        conc    == IF c.Concurrent # 0 THEN c.Concurrent ELSE DefaultConcurrent
    IN  [Timeout          |-> timeout,
         ConnectTimeout   |-> connect,
         Concurrent       |-> conc,
         ConcurrentHTTP   |-> IF c.ConcurrentHTTP # 0 THEN c.ConcurrentHTTP ELSE conc,
         ConcurrentSOCKS5 |-> IF c.ConcurrentSOCKS5 # 0 THEN c.ConcurrentSOCKS5 ELSE conc,
         StrictCheck      |-> c.StrictCheck,
         DetailedOutput   |-> IF ~c.StrictCheck THEN FALSE ELSE c.DetailedOutput]

ConfigFiles ==
    [Timeout : {0, 7}, ConnectTimeout : {0, 2}, Concurrent : {0, 50},
     ConcurrentHTTP : {0, 20}, ConcurrentSOCKS5 : {0},
     StrictCheck : BOOLEAN, DetailedOutput : BOOLEAN]

FlagValues == [strict : BOOLEAN, detailed : BOOLEAN]

ConfigIdle ==
    /\ lcFile = <<>> /\ lcFlags = <<>> /\ lcCfg = <<>> /\ lcPc = "idle"

InitConfig ==
    /\ lcFile \in ConfigFiles
    /\ lcFlags \in FlagValues
    /\ lcCfg = <<>>
    /\ lcPc = "init"

\* main line 273: config, err := src.LoadConfig("config.yaml")
LoadConfig ==
    /\ lcPc = "init"
    /\ lcCfg' = LoadConfigChecker(lcFile)
    /\ lcPc' = "loaded"
    /\ UNCHANGED <<lcFile, lcFlags>>
    /\ UNCHANGED <<ddVars, vpVars, mainVars, tpVars, scVars>>

\* main lines 280-281: the flags replace the two fields of the loaded
\* configuration
MainFlags ==
    /\ lcPc = "loaded"
    /\ lcCfg' = [lcCfg EXCEPT !.StrictCheck = lcFlags.strict,
                              !.DetailedOutput = lcFlags.detailed]
    /\ lcPc' = "flags"
    /\ UNCHANGED <<lcFile, lcFlags>>
    /\ UNCHANGED <<ddVars, vpVars, mainVars, tpVars, scVars>>

----------------------------------------------------------------------------
(* SpecScrape: one call of ScrapeProxies, lines 119-212.  The progress     *)
(* goroutine is started before the loop over the sources; a source         *)
(* goroutine is at                                                         *)
(*   start   before `semaphore <- struct{}{}`                              *)
(*   fetch   holds a slot, before NewRequest / Do / ReadAll                *)
(*   lock    has its localProxies, before mu.Lock()                        *)
(*   in      holds mu                                                      *)
(*   fin     before the deferred `<-semaphore`                             *)
(*   rel     has given its slot back, before the deferred wg.Done()        *)
(*   done                                                                  *)

MaxSources          == 2
MaxScrapeConcurrent == 2

Sources == 1..MaxSources

TheReporter == <<"reporter", 0>>

\* the lines of the bodies the sources answer with
ScrapeBodies ==
    { << <<"\t", "U+3000">> \o A1 \o <<" ", "\r">>, <<"x">> >>,
      << SchemeHTTP \o A2, <<>>, A1 >> }

\* lines 189-196: the accepted lines of a body, normalised
RECURSIVE ValidLines(_)
ValidLines(lines) ==
    IF lines = <<>> THEN <<>>
    ELSE (IF isValidProxy(TrimSpace(lines[1]))[2]
          THEN <<isValidProxy(TrimSpace(lines[1]))[1]>> ELSE <<>>)
         \o ValidLines(Tail(lines))

ScrapeStart(n, conc, pc) ==
    /\ scUrls = n
    /\ scConcurrent = conc
    /\ scPc = pc
    /\ srcPc = [i \in Sources |-> "unborn"]
    /\ srcFetched = [i \in Sources |-> <<"none", <<>>>>]
    /\ localProxies = [i \in Sources |-> <<>>]
    /\ scProxies = <<>>
    /\ completedURLs = 0
    /\ totalFound = 0
    /\ scMu = NoOne
    /\ semaphore = 0
    /\ scWg = 0
    /\ doneClosed = FALSE
    /\ repPc = IF pc = "idle" THEN "unborn" ELSE "select"

ScrapeIdle == ScrapeStart(0, 1, "idle")

InitScrape ==
    \E n \in 0..MaxSources, conc \in 1..MaxScrapeConcurrent :
        ScrapeStart(n, conc, "spawn")

OthersIdle == UNCHANGED <<ddVars, vpVars, mainVars, tpVars, lcVars>>

\* lines 158-160: wg.Add(1) and the go statement for the next source
ScrapeSpawn ==
    /\ scPc = "spawn"
    /\ \E i \in 1..scUrls :
          /\ srcPc[i] = "unborn"
          /\ \A j \in 1..(i - 1) : srcPc[j] # "unborn"
          /\ srcPc' = [srcPc EXCEPT ![i] = "start"]
    /\ scWg' = scWg + 1
    /\ UNCHANGED <<scUrls, scConcurrent, scPc, srcFetched, localProxies,
                   scProxies, completedURLs, totalFound, scMu, semaphore,
                   doneClosed, repPc>>
    /\ OthersIdle

\* the loop over urls is over
ScrapeSpawned ==
    /\ scPc = "spawn"
    /\ \A i \in 1..scUrls : srcPc[i] # "unborn"
    /\ scPc' = "wait"
    /\ UNCHANGED <<scUrls, scConcurrent, srcPc, srcFetched, localProxies,
                   scProxies, completedURLs, totalFound, scMu, semaphore, scWg,
                   doneClosed, repPc>>
    /\ OthersIdle

\* a faulty variant: ScrapeProxies does not wait for the source goroutines
ScrapeWaitNoWait ==
    /\ scPc = "wait"
    /\ scPc' = "close"
    /\ UNCHANGED <<scUrls, scConcurrent, srcPc, srcFetched, localProxies,
                   scProxies, completedURLs, totalFound, scMu, semaphore, scWg,
                   doneClosed, repPc>>
    /\ OthersIdle

\* line 207: wg.Wait()
ScrapeWait ==
    /\ scPc = "wait"
    /\ scWg = 0
    /\ scPc' = "close"
    /\ UNCHANGED <<scUrls, scConcurrent, srcPc, srcFetched, localProxies,
                   scProxies, completedURLs, totalFound, scMu, semaphore, scWg,
                   doneClosed, repPc>>
    /\ OthersIdle

\* lines 208-211: close(done), the last message and `return proxies`
ScrapeReturn ==
    /\ scPc = "close"
    /\ doneClosed' = TRUE
    /\ scPc' = "returned"
    /\ UNCHANGED <<scUrls, scConcurrent, srcPc, srcFetched, localProxies,
                   scProxies, completedURLs, totalFound, scMu, semaphore, scWg,
                   repPc>>
    /\ OthersIdle

\* line 162: semaphore <- struct{}{}
SrcAcquire(i) ==
    /\ srcPc[i] = "start"
    /\ semaphore < scConcurrent
    /\ semaphore' = semaphore + 1
    /\ srcPc' = [srcPc EXCEPT ![i] = "fetch"]
    /\ UNCHANGED <<scUrls, scConcurrent, scPc, srcFetched, localProxies,
                   scProxies, completedURLs, totalFound, scMu, scWg,
                   doneClosed, repPc>>
    /\ OthersIdle

\* lines 165-186: NewRequest, client.Do or io.ReadAll returns an error; it
\* is logged and the goroutine returns
SrcFail(i) ==
    /\ srcPc[i] = "fetch"
    /\ srcFetched' = [srcFetched EXCEPT ![i] = <<"fail", <<>>>>]
    /\ srcPc' = [srcPc EXCEPT ![i] = "fin"]
    /\ UNCHANGED <<scUrls, scConcurrent, scPc, localProxies, scProxies,
                   completedURLs, totalFound, scMu, semaphore, scWg,
                   doneClosed, repPc>>
    /\ OthersIdle

\* lines 165-196: the body is read and its accepted lines are collected
SrcFetch(i) ==
    /\ srcPc[i] = "fetch"
    /\ \E body \in ScrapeBodies :
          /\ srcFetched' = [srcFetched EXCEPT ![i] = <<"ok", body>>]
          /\ localProxies' = [localProxies EXCEPT ![i] = ValidLines(body)]
    /\ srcPc' = [srcPc EXCEPT ![i] = "lock"]
    /\ UNCHANGED <<scUrls, scConcurrent, scPc, scProxies, completedURLs,
                   totalFound, scMu, semaphore, scWg, doneClosed, repPc>>
    /\ OthersIdle

\* line 199: mu.Lock()
SrcLock(i) ==
    /\ srcPc[i] = "lock"
    /\ scMu = NoOne
    /\ scMu' = <<"src", i>>
    /\ srcPc' = [srcPc EXCEPT ![i] = "in"]
    /\ UNCHANGED <<scUrls, scConcurrent, scPc, srcFetched, localProxies,
                   scProxies, completedURLs, totalFound, semaphore, scWg,
                   doneClosed, repPc>>
    /\ OthersIdle

\* a faulty variant: the append starts from the empty list, not from the
\* list the other sources have appended to
SrcAppendStale(i) ==
    /\ srcPc[i] = "in"
    /\ scMu = <<"src", i>>
    /\ scProxies' = localProxies[i]
    /\ completedURLs' = completedURLs + 1
    /\ totalFound' = Len(localProxies[i])
    /\ scMu' = NoOne
    /\ srcPc' = [srcPc EXCEPT ![i] = "fin"]
    /\ UNCHANGED <<scUrls, scConcurrent, scPc, srcFetched, localProxies,
                   semaphore, scWg, doneClosed, repPc>>
    /\ OthersIdle

\* lines 200-203: the append, the counters and mu.Unlock()
SrcAppend(i) ==
    /\ srcPc[i] = "in"
    /\ scMu = <<"src", i>>
    /\ scProxies' = scProxies \o localProxies[i]
    /\ completedURLs' = completedURLs + 1
    /\ totalFound' = Len(scProxies \o localProxies[i])
    /\ scMu' = NoOne
    /\ srcPc' = [srcPc EXCEPT ![i] = "fin"]
    /\ UNCHANGED <<scUrls, scConcurrent, scPc, srcFetched, localProxies,
                   semaphore, scWg, doneClosed, repPc>>
    /\ OthersIdle

\* line 163, the deferred call that runs first: `<-semaphore`
SrcRelease(i) ==
    /\ srcPc[i] = "fin"
    /\ semaphore' = semaphore - 1
    /\ srcPc' = [srcPc EXCEPT ![i] = "rel"]
    /\ UNCHANGED <<scUrls, scConcurrent, scPc, srcFetched, localProxies,
                   scProxies, completedURLs, totalFound, scMu, scWg,
                   doneClosed, repPc>>
    /\ OthersIdle

\* line 161, the deferred call that runs last: wg.Done()
SrcFinish(i) ==
    /\ srcPc[i] = "rel"
    /\ scWg' = scWg - 1
    /\ srcPc' = [srcPc EXCEPT ![i] = "done"]
    /\ UNCHANGED <<scUrls, scConcurrent, scPc, srcFetched, localProxies,
                   scProxies, completedURLs, totalFound, scMu, semaphore,
                   doneClosed, repPc>>
    /\ OthersIdle

\* lines 142-143: the select takes `case <-done`
ReporterDone ==
    /\ repPc = "select"
    /\ doneClosed
    /\ repPc' = "stopped"
    /\ UNCHANGED <<scUrls, scConcurrent, scPc, srcPc, srcFetched, localProxies,
                   scProxies, completedURLs, totalFound, scMu, semaphore, scWg,
                   doneClosed>>
    /\ OthersIdle

\* lines 144-145: the select takes `case <-ticker.C`, before mu.Lock()
ReporterTick ==
    /\ repPc = "select"
    /\ repPc' = "lock"
    /\ UNCHANGED <<scUrls, scConcurrent, scPc, srcPc, srcFetched, localProxies,
                   scProxies, completedURLs, totalFound, scMu, semaphore, scWg,
                   doneClosed>>
    /\ OthersIdle

\* line 145: mu.Lock()
ReporterLock ==
    /\ repPc = "lock"
    /\ scMu = NoOne
    /\ scMu' = TheReporter
    /\ repPc' = "in"
    /\ UNCHANGED <<scUrls, scConcurrent, scPc, srcPc, srcFetched, localProxies,
                   scProxies, completedURLs, totalFound, semaphore, scWg,
                   doneClosed>>
    /\ OthersIdle

\* lines 146-153: every source has completed and the goroutine returns, or
\* the progress line is printed; mu.Unlock() in both cases
ReporterBody ==
    /\ repPc = "in"
    /\ scMu = TheReporter
    /\ scMu' = NoOne
    /\ repPc' = IF completedURLs = scUrls THEN "stopped" ELSE "select"
    /\ UNCHANGED <<scUrls, scConcurrent, scPc, srcPc, srcFetched, localProxies,
                   scProxies, completedURLs, totalFound, semaphore, scWg,
                   doneClosed>>
    /\ OthersIdle

----------------------------------------------------------------------------
(* Spec: one run of main *)

ZeroCount == [f \in Fam |-> 0]

MainStart(strict, detailed, conc, scraped, existing) ==
    /\ StrictCheck = strict
    /\ DetailedOutput = detailed
    /\ Concurrent = conc
    /\ proxyLists = scraped
    /\ file = existing
    /\ total = ZeroCount /\ checked = ZeroCount /\ working = ZeroCount
    /\ ResultChan = <<>>
    /\ closeCount = 0
    /\ progressMu = NoOne
    /\ fileMu = [f \in Fam |-> NoOne]
    /\ sem = ZeroCount
    /\ wg = 0
    /\ gpc = [g \in GIDs |-> "unborn"]
    /\ res = [g \in GIDs |-> NoResult]
    /\ dpPc = "unborn"
    /\ consPc = "unborn"
    /\ attempts = [g \in GIDs |-> 0]
    /\ published = [g \in GIDs |-> 0]
    /\ incs = [g \in GIDs |-> ZeroCount]
    /\ appended = [g \in GIDs |-> 0]
    /\ writeErr = FALSE
    /\ sentOnClosed = FALSE
    /\ pool = [f \in Fam |->
                Range(scraped[f]) \cup Range(ScannedLines(existing[f]))]

MainIdle ==
    /\ mainPc = "idle"
    /\ MainStart(FALSE, FALSE, [f \in Fam |-> 1], [f \in Fam |-> <<>>],
                 [f \in Fam |-> <<>>])

InitMain ==
    /\ mainPc = "src_http"
    /\ \E strict \in BOOLEAN, detailed \in BOOLEAN,
          conc \in [Fam -> 1..MaxConcurrent],
          sH \in ScrapedChoices.HTTP, sS \in ScrapedChoices.SOCKS5,
          eH \in ExistingChoices.HTTP, eS \in ExistingChoices.SOCKS5 :
          LET nH == Cardinality(Range(sH) \cup Range(ScannedLines(eH)))
              nS == Cardinality(Range(sS) \cup Range(ScannedLines(eS)))
          IN  /\ nH <= MaxHTTP
              /\ nS <= MaxSOCKS5
              /\ nH + nS <= MaxCandidates
              \* a limit above the number of candidates never binds
              /\ conc.HTTP <= (IF nH = 0 THEN 1 ELSE nH)
              /\ conc.SOCKS5 <= (IF nS = 0 THEN 1 ELSE nS)
              /\ MainStart(strict, detailed, conc,
                           [HTTP |-> sH, SOCKS5 |-> sS],
                           [HTTP |-> eH, SOCKS5 |-> eS])

\* the decimal digits of n
RECURSIVE Decimal(_)
Decimal(n) ==
    IF n < 10 THEN <<Ascii[n + 17]>>
    ELSE Append(Decimal(n \div 10), Ascii[(n % 10) + 17])

\* the k-th HTTP candidate of a run with many candidates
Filler(k) == <<"9", ".", "9", ".", "9", ".">> \o Decimal(k) \o <<":", "8", "0">>

Fillers == [k \in 1..ResultChanCap |-> Filler(k)]

\* A run of main in basic mode with the default limits, ResultChanCap HTTP
\* candidates and one SOCKS5 candidate, inside CheckProxies between its two
\* `for ... range` loops: every HTTP check goroutine has been started, has
\* failed its probe, sent its result and returned, and main's drain
\* goroutine has not been scheduled since it was started, so the channel
\* holds ResultChanCap results.  The SOCKS5 goroutine and displayProgress
\* are still to be started.  gpc, res and the other per-goroutine records
\* are kept for the first MaxHTTP of the HTTP goroutines only; the others
\* have returned and take no further step.
FullStart ==
    /\ mainPc = "spawn"
    /\ Concurrent = [f \in Fam |-> DefaultConcurrent]
    /\ StrictCheck = FALSE /\ DetailedOutput = FALSE
    /\ proxyLists = [HTTP |-> Fillers, SOCKS5 |-> <<S1>>]
    /\ file = [f \in Fam |-> <<>>]
    /\ total = [HTTP |-> ResultChanCap, SOCKS5 |-> 1]
    /\ checked = [HTTP |-> ResultChanCap, SOCKS5 |-> 0]
    /\ working = ZeroCount
    /\ ResultChan = [k \in 1..ResultChanCap |->
                       CheckResult(Filler(k), "HTTP", Failed)]
    /\ closeCount = 0
    /\ progressMu = NoOne
    /\ fileMu = [f \in Fam |-> NoOne]
    /\ sem = ZeroCount
    /\ wg = 0
    /\ gpc = [g \in GIDs |-> IF g[1] = "HTTP" THEN "done" ELSE "unborn"]
    /\ res = [g \in GIDs |-> IF g[1] = "HTTP"
                             THEN CheckResult(Filler(g[2]), "HTTP", Failed)
                             ELSE NoResult]
    /\ dpPc = "unborn"
    /\ consPc = "ranging"
    /\ attempts = [g \in GIDs |-> IF g[1] = "HTTP" THEN 1 ELSE 0]
    /\ published = [g \in GIDs |-> IF g[1] = "HTTP" THEN 1 ELSE 0]
    /\ incs = [g \in GIDs |-> IF g[1] = "HTTP"
                              THEN [HTTP |-> 1, SOCKS5 |-> 0] ELSE ZeroCount]
    /\ appended = [g \in GIDs |-> 0]
    /\ writeErr = FALSE
    /\ sentOnClosed = FALSE
    /\ pool = [HTTP |-> Range(Fillers), SOCKS5 |-> {S1}]

\* main, lines 303-319: ReadLines on sources/http.txt, then on
\* sources/socks5.txt, each followed by ScrapeProxies; main returns when a
\* list cannot be read.  proxyLists holds from the start what ScrapeProxies
\* returns for the family.
MainSources(f) ==
    /\ mainPc = (IF f = "HTTP" THEN "src_http" ELSE "src_socks5")
    /\ \E ok \in BOOLEAN :
          mainPc' = (IF ~ok THEN "stopped"
                     ELSE IF f = "HTTP" THEN "src_socks5" ELSE "start")
    /\ UNCHANGED <<cfgVars, cntVars, obsVars, proxyLists, file, ResultChan,
                   closeCount, progressMu, fileMu, sem, wg, gpc, res, dpPc,
                   consPc>>
    /\ UNCHANGED <<ddVars, vpVars, extraVars>>

\* main, lines 321-337: read the existing output files, append the lines
\* read to the scraped candidates, remove the duplicates.  The error of
\* ReadLines is dropped: a file that cannot be read adds no line.
MainPrepare ==
    /\ mainPc = "start"
    /\ \E ioErr \in [Fam -> BOOLEAN] :
          \E existing \in {[f \in Fam |-> ReadLines(file[f], ioErr[f]).lines]} :
              proxyLists' = [f \in Fam |->
                               RemoveDuplicates(proxyLists[f] \o existing[f])]
    /\ mainPc' = "clear_http"
    /\ UNCHANGED <<cfgVars, cntVars, obsVars, file, ResultChan, closeCount,
                   progressMu, fileMu, sem, wg, gpc, res, dpPc, consPc>>
    /\ UNCHANGED <<ddVars, vpVars, extraVars>>

\* main, lines 339-347: os.WriteFile(path, []byte{}) for one family; main
\* returns when it fails
MainClear(f) ==
    /\ mainPc = (IF f = "HTTP" THEN "clear_http" ELSE "clear_socks5")
    /\ \E ok \in BOOLEAN :
          IF ok
          THEN /\ file' = [file EXCEPT ![f] = <<>>]
               /\ mainPc' = (IF f = "HTTP" THEN "clear_socks5" ELSE "new_checker")
               /\ UNCHANGED writeErr
          ELSE /\ mainPc' = "aborted"
               /\ writeErr' = TRUE
               /\ UNCHANGED file
    /\ UNCHANGED <<cfgVars, cntVars, attempts, published, incs, appended,
                   sentOnClosed, pool, proxyLists, ResultChan, closeCount,
                   progressMu, fileMu, sem, wg, gpc, res, dpPc, consPc>>
    /\ UNCHANGED <<ddVars, vpVars, extraVars>>

\* main, lines 353-360: NewProxyChecker and the goroutine that drains
\* ResultChan
MainNewChecker ==
    /\ mainPc = "new_checker"
    /\ consPc' = "ranging"
    /\ mainPc' = "cp_begin"
    /\ UNCHANGED <<cfgVars, cntVars, obsVars, proxyLists, file, ResultChan,
                   closeCount, progressMu, fileMu, sem, wg, gpc, res, dpPc>>
    /\ UNCHANGED <<ddVars, vpVars, extraVars>>

\* CheckProxies, lines 208-228: the totals, the semaphores and mutexes, and
\* the header rows in strict+detailed mode (a failed write is logged)
CPBegin ==
    /\ mainPc = "cp_begin"
    /\ total' = [f \in Fam |-> Len(proxyLists[f])]
    /\ IF StrictCheck /\ DetailedOutput
       THEN \E okH \in BOOLEAN, okS \in BOOLEAN :
               /\ file' = [HTTP   |-> IF okH THEN <<HeaderLine>> ELSE file.HTTP,
                           SOCKS5 |-> IF okS THEN <<HeaderLine>> ELSE file.SOCKS5]
               /\ writeErr' = (writeErr \/ ~okH \/ ~okS)
       ELSE UNCHANGED <<file, writeErr>>
    /\ mainPc' = "spawn"
    /\ UNCHANGED <<cfgVars, checked, working, attempts, published, incs,
                   appended, sentOnClosed, pool, proxyLists, ResultChan,
                   closeCount, progressMu, fileMu, sem, wg, gpc, res, dpPc,
                   consPc>>
    /\ UNCHANGED <<ddVars, vpVars, extraVars>>

Unborn == {g \in GIDs : Live(g) /\ gpc[g] = "unborn"}

\* the order of the two `for ... range` loops: HTTP first, then SOCKS5
SpawnsBefore(g, h) ==
    \/ g[1] = "HTTP" /\ h[1] = "SOCKS5"
    \/ g[1] = h[1] /\ g[2] <= h[2]

\* CheckProxies, lines 231-233 and 247-249: wg.Add(1) and `go func(p)`
CPSpawn ==
    /\ mainPc = "spawn"
    /\ Unborn # {}
    /\ LET g == CHOOSE x \in Unborn : \A y \in Unborn : SpawnsBefore(x, y)
       IN  /\ wg' = wg + 1
           /\ gpc' = [gpc EXCEPT ![g] = "start"]
    /\ UNCHANGED <<cfgVars, cntVars, obsVars, mainPc, proxyLists, file,
                   ResultChan, closeCount, progressMu, fileMu, sem, res, dpPc,
                   consPc>>
    /\ UNCHANGED <<ddVars, vpVars, extraVars>>

\* CheckProxies, line 263: go c.displayProgress()
CPSpawnDisplay ==
    /\ mainPc = "spawn"
    /\ Unborn = {}
    /\ dpPc' = "loop"
    /\ mainPc' = "wait"
    /\ UNCHANGED <<cfgVars, cntVars, obsVars, proxyLists, file, ResultChan,
                   closeCount, progressMu, fileMu, sem, wg, gpc, res, consPc>>
    /\ UNCHANGED <<ddVars, vpVars, extraVars>>

\* a faulty variant: CheckProxies does not wait for the check goroutines
CPWaitNoWait ==
    /\ mainPc = "wait"
    /\ mainPc' = "close"
    /\ UNCHANGED <<cfgVars, cntVars, obsVars, proxyLists, file, ResultChan,
                   closeCount, progressMu, fileMu, sem, wg, gpc, res, dpPc,
                   consPc>>
    /\ UNCHANGED <<ddVars, vpVars, extraVars>>

\* CheckProxies, line 265: wg.Wait()
CPWait ==
    /\ mainPc = "wait"
    /\ wg = 0
    /\ mainPc' = "close"
    /\ UNCHANGED <<cfgVars, cntVars, obsVars, proxyLists, file, ResultChan,
                   closeCount, progressMu, fileMu, sem, wg, gpc, res, dpPc,
                   consPc>>
    /\ UNCHANGED <<ddVars, vpVars, extraVars>>

\* CheckProxies, line 266: close(c.ResultChan), and the return
CPClose ==
    /\ mainPc = "close"
    /\ closeCount' = closeCount + 1
    /\ mainPc' = "returned"
    /\ UNCHANGED <<cfgVars, cntVars, obsVars, proxyLists, file, ResultChan,
                   progressMu, fileMu, sem, wg, gpc, res, dpPc, consPc>>
    /\ UNCHANGED <<ddVars, vpVars, extraVars>>

\* main, lines 363-364: the last message and the return, which ends the
\* process and every goroutine with it
MainExit ==
    /\ mainPc = "returned"
    /\ mainPc' = "exited"
    /\ UNCHANGED <<cfgVars, cntVars, obsVars, proxyLists, file, ResultChan,
                   closeCount, progressMu, fileMu, sem, wg, gpc, res, dpPc,
                   consPc>>
    /\ UNCHANGED <<ddVars, vpVars, extraVars>>

ProcessAlive == mainPc \notin {"exited", "aborted", "stopped", "idle"}

----------------------------------------------------------------------------
(* The check goroutine of candidate g, CheckProxies lines 233-243 and      *)
(* 249-259, with checkHTTPProxy / checkSOCKS5Proxy, updateProgress and     *)
(* AppendLine inlined at their synchronisation points:                     *)
(*   start   before `sem <- struct{}{}`                                    *)
(*   check   holds a slot, before the call of checkHTTPProxy/SOCKS5Proxy   *)
(*   send    before `c.ResultChan <- result`                               *)
(*   upd     before c.progressMu.Lock() of updateProgress                  *)
(*   upd_in  holds progressMu                                              *)
(*   app     before mu.Lock() of AppendLine                                *)
(*   app_in  holds the family's file mutex                                 *)
(*   fin     before the deferred `<-sem`                                   *)
(*   rel     has given its slot back, before the deferred wg.Done()        *)
(*   done                                                                  *)

ProxyOf(g) == proxyLists[g[1]][g[2]]

\* a faulty variant: the send does not wait for room in the semaphore
AcquireNoLimit(g) ==
    /\ ProcessAlive /\ gpc[g] = "start"
    /\ sem' = [sem EXCEPT ![g[1]] = @ + 1]
    /\ gpc' = [gpc EXCEPT ![g] = "check"]
    /\ UNCHANGED <<cfgVars, cntVars, obsVars, mainPc, proxyLists, file,
                   ResultChan, closeCount, progressMu, fileMu, wg, res, dpPc,
                   consPc>>
    /\ UNCHANGED <<ddVars, vpVars, extraVars>>

\* a faulty variant: one pool for both families
AcquireSharedPool(g) ==
    /\ ProcessAlive /\ gpc[g] = "start"
    /\ sem.HTTP + sem.SOCKS5 < Concurrent[g[1]]
    /\ sem' = [sem EXCEPT ![g[1]] = @ + 1]
    /\ gpc' = [gpc EXCEPT ![g] = "check"]
    /\ UNCHANGED <<cfgVars, cntVars, obsVars, mainPc, proxyLists, file,
                   ResultChan, closeCount, progressMu, fileMu, wg, res, dpPc,
                   consPc>>
    /\ UNCHANGED <<ddVars, vpVars, extraVars>>

\* `semHTTP <- struct{}{}` / `semSOCKS5 <- struct{}{}`
Acquire(g) ==
    /\ ProcessAlive /\ gpc[g] = "start"
    /\ sem[g[1]] < Concurrent[g[1]]
    /\ sem' = [sem EXCEPT ![g[1]] = @ + 1]
    /\ gpc' = [gpc EXCEPT ![g] = "check"]
    /\ UNCHANGED <<cfgVars, cntVars, obsVars, mainPc, proxyLists, file,
                   ResultChan, closeCount, progressMu, fileMu, wg, res, dpPc,
                   consPc>>
    /\ UNCHANGED <<ddVars, vpVars, extraVars>>

\* a faulty variant: the construction error returns without updateProgress
CheckConstructErrNoUpdate(g) ==
    /\ ProcessAlive /\ gpc[g] = "check"
    /\ ConstructErr(g[1], ProxyOf(g))
    /\ attempts' = [attempts EXCEPT ![g] = @ + 1]
    /\ res' = [res EXCEPT ![g] = CheckResult(ProxyOf(g), g[1], Failed)]
    /\ gpc' = [gpc EXCEPT ![g] = "fin"]
    /\ UNCHANGED <<cfgVars, cntVars, published, incs, appended, writeErr,
                   sentOnClosed, pool, mainPc, proxyLists, file, ResultChan,
                   closeCount, progressMu, fileMu, sem, wg, dpPc, consPc>>
    /\ UNCHANGED <<ddVars, vpVars, extraVars>>

\* checkHTTPProxy lines 381-386, checkSOCKS5Proxy lines 423-431: the proxy
\* URL / dialer cannot be built; the error is logged and updateProgress is
\* called next, nothing is sent on ResultChan
CheckConstructErr(g) ==
    /\ ProcessAlive /\ gpc[g] = "check"
    /\ ConstructErr(g[1], ProxyOf(g))
    /\ attempts' = [attempts EXCEPT ![g] = @ + 1]
    /\ res' = [res EXCEPT ![g] = CheckResult(ProxyOf(g), g[1], Failed)]
    /\ gpc' = [gpc EXCEPT ![g] = "upd"]
    /\ UNCHANGED <<cfgVars, cntVars, published, incs, appended, writeErr,
                   sentOnClosed, pool, mainPc, proxyLists, file, ResultChan,
                   closeCount, progressMu, fileMu, sem, wg, dpPc, consPc>>
    /\ UNCHANGED <<ddVars, vpVars, extraVars>>

\* checkHTTPProxy lines 388-415, checkSOCKS5Proxy lines 433-458: the
\* transport, the client, testProxy and the CheckResult
CheckProbe(g) ==
    /\ ProcessAlive /\ gpc[g] = "check"
    /\ ~ConstructErr(g[1], ProxyOf(g))
    /\ \E o \in ProbeOutcomes(StrictCheck) :
          res' = [res EXCEPT ![g] =
                    CheckResult(ProxyOf(g), g[1], testProxy(StrictCheck, o))]
    /\ attempts' = [attempts EXCEPT ![g] = @ + 1]
    /\ gpc' = [gpc EXCEPT ![g] = "send"]
    /\ UNCHANGED <<cfgVars, cntVars, published, incs, appended, writeErr,
                   sentOnClosed, pool, mainPc, proxyLists, file, ResultChan,
                   closeCount, progressMu, fileMu, sem, wg, dpPc, consPc>>
    /\ UNCHANGED <<ddVars, vpVars, extraVars>>

\* `c.ResultChan <- result`, lines 416 and 459; it blocks while the buffer
\* is full and panics on a closed channel
Send(g) ==
    /\ ProcessAlive /\ gpc[g] = "send"
    /\ Len(ResultChan) < ResultChanCap
    /\ ResultChan' = Append(ResultChan, res[g])
    /\ published' = [published EXCEPT ![g] = @ + 1]
    /\ sentOnClosed' = (sentOnClosed \/ closeCount > 0)
    /\ gpc' = [gpc EXCEPT ![g] = "upd"]
    /\ UNCHANGED <<cfgVars, cntVars, attempts, incs, appended, writeErr, pool,
                   mainPc, proxyLists, file, closeCount, progressMu, fileMu,
                   sem, wg, res, dpPc, consPc>>
    /\ UNCHANGED <<ddVars, vpVars, extraVars>>

\* updateProgress, line 466: c.progressMu.Lock()
UpdateLock(g) ==
    /\ ProcessAlive /\ gpc[g] = "upd"
    /\ progressMu = NoOne
    /\ progressMu' = g
    /\ gpc' = [gpc EXCEPT ![g] = "upd_in"]
    /\ UNCHANGED <<cfgVars, cntVars, obsVars, mainPc, proxyLists, file,
                   ResultChan, closeCount, fileMu, sem, wg, res, dpPc, consPc>>
    /\ UNCHANGED <<ddVars, vpVars, extraVars>>

\* a faulty variant of the switch: the cases are exchanged
updateProgressSwapped(proxyType, w) ==
    LET other == IF proxyType = "HTTP" THEN "SOCKS5" ELSE "HTTP"
    IN  [checked |-> [checked EXCEPT ![other] = @ + 1],
         working |-> IF w THEN [working EXCEPT ![other] = @ + 1] ELSE working]

\* a faulty variant: only a working candidate is counted as checked
updateProgressWorkingOnly(proxyType, w) ==
    [checked |-> IF w THEN [checked EXCEPT ![proxyType] = @ + 1] ELSE checked,
     working |-> IF w THEN [working EXCEPT ![proxyType] = @ + 1] ELSE working]

\* a faulty variant: the switch falls through to the other family's case
updateProgressBothFamilies(proxyType, w) ==
    [checked |-> [f \in Fam |-> checked[f] + 1],
     working |-> IF w THEN [f \in Fam |-> working[f] + 1] ELSE working]

\* updateProgress, lines 469-480: the counters after the switch
updateProgress(proxyType, w) ==
    [checked |-> [checked EXCEPT ![proxyType] = @ + 1],
     working |-> IF w THEN [working EXCEPT ![proxyType] = @ + 1] ELSE working]

\* a faulty variant: every checked candidate is appended
NextAfterCheckAlways(result) == "app"

\* CheckProxies, lines 237 and 253: `if result := ...; result.Working`
NextAfterCheck(result) == IF result.Working THEN "app" ELSE "fin"

\* updateProgress, lines 469-480 and the deferred Unlock, then the return
\* of checkHTTPProxy / checkSOCKS5Proxy to the goroutine
UpdateBody(g) ==
    /\ ProcessAlive /\ gpc[g] = "upd_in"
    /\ progressMu = g
    /\ LET c == updateProgress(g[1], res[g].Working)
       IN  /\ checked' = c.checked
           /\ working' = c.working
           /\ incs' = [incs EXCEPT ![g] =
                         [f \in Fam |-> @[f] + c.checked[f] - checked[f]]]
    /\ progressMu' = NoOne
    /\ gpc' = [gpc EXCEPT ![g] = NextAfterCheck(res[g])]
    /\ UNCHANGED <<cfgVars, total, attempts, published, appended, writeErr,
                   sentOnClosed, pool, mainPc, proxyLists, file, ResultChan,
                   closeCount, fileMu, sem, wg, res, dpPc, consPc>>
    /\ UNCHANGED <<ddVars, vpVars, extraVars>>

\* a faulty variant: AppendLine does not wait for the mutex
AppendLockNoWait(g) ==
    /\ ProcessAlive /\ gpc[g] = "app"
    /\ fileMu' = [fileMu EXCEPT ![g[1]] = g]
    /\ gpc' = [gpc EXCEPT ![g] = "app_in"]
    /\ UNCHANGED <<cfgVars, cntVars, obsVars, mainPc, proxyLists, file,
                   ResultChan, closeCount, progressMu, sem, wg, res, dpPc,
                   consPc>>
    /\ UNCHANGED <<ddVars, vpVars, extraVars>>

\* AppendLine, line 55: mu.Lock()
AppendLock(g) ==
    /\ ProcessAlive /\ gpc[g] = "app"
    /\ fileMu[g[1]] = NoOne
    /\ fileMu' = [fileMu EXCEPT ![g[1]] = g]
    /\ gpc' = [gpc EXCEPT ![g] = "app_in"]
    /\ UNCHANGED <<cfgVars, cntVars, obsVars, mainPc, proxyLists, file,
                   ResultChan, closeCount, progressMu, sem, wg, res, dpPc,
                   consPc>>
    /\ UNCHANGED <<ddVars, vpVars, extraVars>>

\* AppendLine, lines 58-65 and the deferred Unlock: the formatted line is
\* appended to the family's file, or the open / write fails and the error
\* is logged by the goroutine
AppendWrite(g) ==
    /\ ProcessAlive /\ gpc[g] = "app_in"
    /\ fileMu[g[1]] = g
    /\ \E ok \in BOOLEAN :
          /\ file' = [file EXCEPT ![g[1]] =
                        IF ok THEN Append(@, formatProxyOutput(StrictCheck,
                                                  DetailedOutput, res[g]))
                        ELSE @]
          /\ appended' = [appended EXCEPT ![g] = IF ok THEN @ + 1 ELSE @]
          /\ writeErr' = (writeErr \/ ~ok)
    /\ fileMu' = [fileMu EXCEPT ![g[1]] = NoOne]
    /\ gpc' = [gpc EXCEPT ![g] = "fin"]
    /\ UNCHANGED <<cfgVars, cntVars, attempts, published, incs, sentOnClosed,
                   pool, mainPc, proxyLists, ResultChan, closeCount, progressMu,
                   sem, wg, res, dpPc, consPc>>
    /\ UNCHANGED <<ddVars, vpVars, extraVars>>

\* lines 236 and 252, the deferred call that runs first: `<-semHTTP` or
\* `<-semSOCKS5`
Release(g) ==
    /\ ProcessAlive /\ gpc[g] = "fin"
    /\ sem' = [sem EXCEPT ![g[1]] = @ - 1]
    /\ gpc' = [gpc EXCEPT ![g] = "rel"]
    /\ UNCHANGED <<cfgVars, cntVars, obsVars, mainPc, proxyLists, file,
                   ResultChan, closeCount, progressMu, fileMu, wg, res, dpPc,
                   consPc>>
    /\ UNCHANGED <<ddVars, vpVars, extraVars>>

\* lines 234 and 250, the deferred call that runs last: wg.Done()
Finish(g) ==
    /\ ProcessAlive /\ gpc[g] = "rel"
    /\ wg' = wg - 1
    /\ gpc' = [gpc EXCEPT ![g] = "done"]
    /\ UNCHANGED <<cfgVars, cntVars, obsVars, mainPc, proxyLists, file,
                   ResultChan, closeCount, progressMu, fileMu, sem, res, dpPc,
                   consPc>>
    /\ UNCHANGED <<ddVars, vpVars, extraVars>>

----------------------------------------------------------------------------
(* main's drain goroutine and displayProgress *)

\* a faulty variant: main ranges over ResultChan only after CheckProxies
\* has returned
ConsumeAfterReturn ==
    /\ mainPc = "returned"
    /\ consPc = "ranging"
    /\ ResultChan # <<>>
    /\ ResultChan' = Tail(ResultChan)
    /\ UNCHANGED <<cfgVars, cntVars, obsVars, mainPc, proxyLists, file,
                   closeCount, progressMu, fileMu, sem, wg, gpc, res, dpPc,
                   consPc>>
    /\ UNCHANGED <<ddVars, vpVars, extraVars>>

\* main, lines 356-359: one iteration of `for result := range ResultChan`
Consume ==
    /\ ProcessAlive /\ consPc = "ranging"
    /\ ResultChan # <<>>
    /\ ResultChan' = Tail(ResultChan)
    /\ UNCHANGED <<cfgVars, cntVars, obsVars, mainPc, proxyLists, file,
                   closeCount, progressMu, fileMu, sem, wg, gpc, res, dpPc,
                   consPc>>
    /\ UNCHANGED <<ddVars, vpVars, extraVars>>

\* the range loop ends when the channel is closed and drained
ConsumeEnd ==
    /\ ProcessAlive /\ consPc = "ranging"
    /\ ResultChan = <<>> /\ closeCount > 0
    /\ consPc' = "done"
    /\ UNCHANGED <<cfgVars, cntVars, obsVars, mainPc, proxyLists, file,
                   ResultChan, closeCount, progressMu, fileMu, sem, wg, gpc,
                   res, dpPc>>
    /\ UNCHANGED <<ddVars, vpVars, extraVars>>

\* displayProgress, lines 485-490: under progressMu, both families have
\* checked == total and the loop is left.  An iteration that finds checks
\* outstanding prints, unlocks and sleeps, and changes no state.
DisplayLeaveLoop ==
    /\ ProcessAlive /\ dpPc = "loop"
    /\ progressMu = NoOne
    /\ \A f \in Fam : checked[f] = total[f]
    /\ dpPc' = "final"
    /\ UNCHANGED <<cfgVars, cntVars, obsVars, mainPc, proxyLists, file,
                   ResultChan, closeCount, progressMu, fileMu, sem, wg, gpc,
                   res, consPc>>
    /\ UNCHANGED <<ddVars, vpVars, extraVars>>

\* displayProgress, lines 509-511: the final summary
DisplayFinal ==
    /\ ProcessAlive /\ dpPc = "final"
    /\ dpPc' = "done"
    /\ UNCHANGED <<cfgVars, cntVars, obsVars, mainPc, proxyLists, file,
                   ResultChan, closeCount, progressMu, fileMu, sem, wg, gpc,
                   res, consPc>>
    /\ UNCHANGED <<ddVars, vpVars, extraVars>>

----------------------------------------------------------------------------
(* The specifications *)

Init == InitMain /\ DedupIdle /\ ValidIdle /\ ProbeIdle /\ ConfigIdle /\ ScrapeIdle

Next ==
    \/ \E f \in Fam : MainSources(f)
    \/ MainPrepare
    \/ \E f \in Fam : MainClear(f)
    \/ MainNewChecker
    \/ CPBegin
    \/ CPSpawn
    \/ CPSpawnDisplay
    \/ CPWait
    \/ CPClose
    \/ MainExit
    \/ \E g \in GIDs : Acquire(g)
    \/ \E g \in GIDs : CheckConstructErr(g)
    \/ \E g \in GIDs : CheckProbe(g)
    \/ \E g \in GIDs : Send(g)
    \/ \E g \in GIDs : UpdateLock(g)
    \/ \E g \in GIDs : UpdateBody(g)
    \/ \E g \in GIDs : AppendLock(g)
    \/ \E g \in GIDs : AppendWrite(g)
    \/ \E g \in GIDs : Release(g)
    \/ \E g \in GIDs : Finish(g)
    \/ Consume
    \/ ConsumeEnd
    \/ DisplayLeaveLoop
    \/ DisplayFinal

Spec == Init /\ [][Next]_vars

\* the steps of main and of CheckProxies up to its return
MainStep ==
    \/ \E f \in Fam : MainSources(f)
    \/ MainPrepare
    \/ \E f \in Fam : MainClear(f)
    \/ MainNewChecker
    \/ CPBegin
    \/ CPSpawn
    \/ CPSpawnDisplay
    \/ CPWait
    \/ CPClose

\* the steps of the check goroutine of candidate g
CheckStep(g) ==
    \/ Acquire(g)
    \/ CheckConstructErr(g)
    \/ CheckProbe(g)
    \/ Send(g)
    \/ UpdateLock(g)
    \/ UpdateBody(g)
    \/ AppendLock(g)
    \/ AppendWrite(g)
    \/ Release(g)
    \/ Finish(g)

\* Fair scheduling of a run: main keeps running; a check goroutine runs
\* when it can, every probe ends (CheckProbe), and a goroutine blocked on a
\* channel send or on a mutex gets it when it is free again and again (the
\* runtime queues blocked senders and lockers); the drain goroutine of main
\* keeps receiving.
RunFairness ==
    /\ WF_vars(MainStep)
    /\ \A g \in GIDs : SF_vars(CheckStep(g))
    /\ WF_vars(Consume)

SpecFair == Init /\ [][Next]_vars /\ RunFairness

\* The runs of SpecFair, and the runs that go on from FullStart, where the
\* result channel is full
InitDrain ==
    /\ InitMain \/ FullStart
    /\ DedupIdle /\ ValidIdle /\ ProbeIdle /\ ConfigIdle /\ ScrapeIdle

SpecDrain == InitDrain /\ [][Next]_vars /\ RunFairness

NextDedup == DedupOnce \/ DedupTwice

DedupStart == InitDedup /\ ValidIdle /\ MainIdle /\ ProbeIdle /\ ConfigIdle /\ ScrapeIdle

SpecDedup == DedupStart /\ [][NextDedup]_vars

NextValid == Validate

NextProbe == Probe

ProbeStart == InitProbe /\ DedupIdle /\ ValidIdle /\ MainIdle /\ ConfigIdle /\ ScrapeIdle

SpecProbe == ProbeStart /\ [][NextProbe]_vars

NextConfig == LoadConfig \/ MainFlags

ConfigStart == InitConfig /\ DedupIdle /\ ValidIdle /\ MainIdle /\ ProbeIdle /\ ScrapeIdle

SpecConfig == ConfigStart /\ [][NextConfig]_vars

NextScrape ==
    \/ ScrapeSpawn
    \/ ScrapeSpawned
    \/ ScrapeWait
    \/ ScrapeReturn
    \/ \E i \in Sources : SrcAcquire(i)
    \/ \E i \in Sources : SrcFail(i)
    \/ \E i \in Sources : SrcFetch(i)
    \/ \E i \in Sources : SrcLock(i)
    \/ \E i \in Sources : SrcAppend(i)
    \/ \E i \in Sources : SrcRelease(i)
    \/ \E i \in Sources : SrcFinish(i)
    \/ ReporterDone
    \/ ReporterTick
    \/ ReporterLock
    \/ ReporterBody

ScrapeInit ==
    InitScrape /\ DedupIdle /\ ValidIdle /\ MainIdle /\ ProbeIdle /\ ConfigIdle

SpecScrape == ScrapeInit /\ [][NextScrape]_vars

\* the steps of source goroutine i, and of the progress goroutine once its
\* select has taken the ticker
SrcStep(i) ==
    \/ SrcAcquire(i)
    \/ SrcFail(i)
    \/ SrcFetch(i)
    \/ SrcLock(i)
    \/ SrcAppend(i)
    \/ SrcRelease(i)
    \/ SrcFinish(i)

ReporterStep == ReporterLock \/ ReporterBody

\* Every goroutine that can take a step keeps being scheduled; a blocked
\* channel send or mu.Lock() gets its turn (the runtime queues the
\* waiters), and a select with several ready cases picks among them at
\* random, so the `done` case is taken at some point once done is closed.
ScrapeFairness ==
    /\ WF_vars(ScrapeSpawn \/ ScrapeSpawned \/ ScrapeWait \/ ScrapeReturn)
    /\ \A i \in Sources : SF_vars(SrcStep(i))
    /\ SF_vars(ReporterDone)
    /\ SF_vars(ReporterStep)

SpecScrapeFair == ScrapeInit /\ [][NextScrape]_vars /\ ScrapeFairness

ValidStart == InitValid /\ DedupIdle /\ MainIdle /\ ProbeIdle /\ ConfigIdle /\ ScrapeIdle

SpecValid == ValidStart /\ [][NextValid]_vars

----------------------------------------------------------------------------
(* Properties of CheckProxies and main, checked under Spec *)

Returned == mainPc \in {"returned", "exited"}

LiveGIDs == {g \in GIDs : Live(g)}

OtherFam(f) == IF f = "HTTP" THEN "SOCKS5" ELSE "HTTP"

\* C1: when CheckProxies has returned, each family's checked counter equals
\* its total, the total is the length of the family's input list, and the
\* working counter does not exceed the checked counter.
C1_CountersComplete ==
    Returned =>
        \A f \in Fam : /\ total[f] = Len(proxyLists[f])
                       /\ checked[f] = total[f]
                       /\ working[f] <= checked[f]

\* CheckProxies has returned after a run in which a family had a working
\* and a rejected candidate
C1_Witness ==
    /\ mainPc = "returned"
    /\ \E f \in Fam : working[f] >= 1 /\ working[f] < checked[f]

\* C2: ResultChan is closed at most once, it is closed by the time
\* CheckProxies has returned, it is closed only when every check goroutine
\* has finished, and no goroutine sends on it once it is closed.
C2_ClosedOnceAfterAll ==
    /\ closeCount <= 1
    /\ Returned => closeCount = 1
    /\ closeCount >= 1 => \A g \in LiveGIDs : gpc[g] = "done"
    /\ ~sentOnClosed

\* the channel has been closed after two checks, one of which published
C2_Witness ==
    /\ closeCount = 1
    /\ Cardinality(LiveGIDs) = 2
    /\ \E g \in LiveGIDs : published[g] = 1

\* C3: when CheckProxies has returned, every candidate has been published
\* exactly once on ResultChan, so the number of published results is
\* totalHTTP + totalSOCKS5.
C3_EveryCheckPublished ==
    Returned => \A g \in LiveGIDs : published[g] = 1

\* C4: a candidate is attempted at most once, increments its own family's
\* checked counter at most once and never the other family's; when
\* CheckProxies has returned it has been attempted once, has incremented
\* its counter once and its goroutine is done; and once its check has
\* produced a result, Working or Rejected, the result never changes.
C4_State ==
    /\ \A g \in LiveGIDs : /\ attempts[g] <= 1
                           /\ incs[g][g[1]] <= 1
                           /\ incs[g][OtherFam(g[1])] = 0
                           /\ incs[g][g[1]] = 1 => attempts[g] = 1
    /\ Returned => \A g \in LiveGIDs : /\ attempts[g] = 1
                                       /\ incs[g][g[1]] = 1
                                       /\ gpc[g] = "done"

C4_Step ==
    \A g \in GIDs : attempts[g] >= 1 => res'[g] = res[g]

C4_OnceEach == [](C4_State) /\ [][C4_Step]_vars

\* CheckProxies has returned with one Working and one Rejected candidate
C4_Witness ==
    /\ mainPc = "returned"
    /\ \E g, h \in LiveGIDs : /\ res[g].Working /\ ~res[h].Working
                              /\ attempts[g] = 1 /\ attempts[h] = 1

HeaderRows == IF StrictCheck /\ DetailedOutput THEN <<HeaderLine>> ELSE <<>>

\* the lines of a family's output after the header row
ResultLines(f) == SubSeq(file[f], Len(HeaderRows) + 1, Len(file[f]))

LineOf(g) == formatProxyOutput(StrictCheck, DetailedOutput, res[g])

\* C5: when CheckProxies has returned and no write failed, a family's
\* output is the header row (strict+detailed mode only) followed by one
\* line for each Working candidate of the family and nothing else; the
\* number of result lines is the family's working counter.
C5_OneLinePerWorking ==
    (Returned /\ ~writeErr) =>
        \A f \in Fam :
            /\ HasPrefix(file[f], HeaderRows)
            /\ Len(ResultLines(f)) = working[f]
            /\ \A g \in LiveGIDs :
                  (g[1] = f /\ res[g].Working) =>
                      Cardinality({i \in 1..Len(ResultLines(f)) :
                                      ResultLines(f)[i] = LineOf(g)}) = 1
            /\ \A i \in 1..Len(ResultLines(f)) :
                  \E g \in LiveGIDs : /\ g[1] = f /\ res[g].Working
                                      /\ ResultLines(f)[i] = LineOf(g)

\* a strict+detailed run has returned without write error, with a Working
\* and a Rejected candidate in one family
C5_Witness ==
    /\ mainPc = "returned" /\ ~writeErr
    /\ StrictCheck /\ DetailedOutput
    /\ \E f \in Fam : working[f] = 1 /\ checked[f] = 2

WorkingOf(f) == {g \in LiveGIDs : g[1] = f /\ res[g].Working}

NoRepeat(s) == \A i, j \in 1..Len(s) : i # j => s[i] # s[j]

\* the candidates handed to the engine are the distinct strings of the
\* scraped candidates and the lines of the existing output file, each
\* checked once
C6_Candidates ==
    (mainPc \notin {"src_http", "src_socks5", "stopped", "start", "aborted"}) =>
        \A f \in Fam : /\ NoRepeat(proxyLists[f])
                       /\ Range(proxyLists[f]) = pool[f]
                       /\ Returned =>
                            /\ total[f] = Cardinality(pool[f])
                            /\ \A g \in LiveGIDs : attempts[g] = 1

\* C6: in a full run the engine checks exactly the distinct strings of the
\* scraped candidates and the lines of the existing output file, each once,
\* the total counter is their number, and if exactly one of a family's
\* candidates passes the check the family's output file is that one line
\* and the working counter is 1.
C6_AsStated ==
    /\ C6_Candidates
    /\ Returned =>
          \A f \in Fam :
              Cardinality(WorkingOf(f)) = 1 =>
                  /\ working[f] = 1
                  /\ \A g \in WorkingOf(f) : file[f] = <<ProxyOf(g)>>

----------------------------------------------------------------------------
(* Properties of RemoveDuplicates, checked under SpecDedup *)

FirstIndex(s, x) == CHOOSE i \in 1..Len(s) : s[i] = x /\ \A j \in 1..(i - 1) : s[j] # x

\* C7: the result of RemoveDuplicates has no repeated element, has the
\* elements of the input and no other, in the order of their first
\* occurrence in the input, and as many as the input has distinct strings.
C7_Dedup ==
    ddPc # "init" =>
        /\ NoRepeat(ddOut)
        /\ Range(ddOut) = Range(ddIn)
        /\ Len(ddOut) = Cardinality(Range(ddIn))
        /\ \A i, j \in 1..Len(ddOut) :
              i < j => FirstIndex(ddIn, ddOut[i]) < FirstIndex(ddIn, ddOut[j])

\* a list with a repetition between two other occurrences was deduplicated
C7_Witness ==
    /\ ddPc = "once"
    /\ Len(ddIn) = 3 /\ ddIn[1] = ddIn[3] /\ ddIn[1] # ddIn[2]
    /\ Len(ddOut) = 2

\* C8: a list without repeated element is returned unchanged, and
\* deduplicating the result of a deduplication returns it unchanged.
C8_Idempotent ==
    /\ (ddPc # "init" /\ NoRepeat(ddIn)) => ddOut = ddIn
    /\ ddPc = "twice" => ddOut2 = ddOut

\* a list with repetitions was deduplicated twice
C8_Witness ==
    /\ ddPc = "twice"
    /\ ~NoRepeat(ddIn)
    /\ Len(ddOut2) >= 2

----------------------------------------------------------------------------
(* Properties of isValidProxy, checked under SpecValid *)

\* C9: an accepted address splits on ':' into exactly two parts, the second
\* of 1 to 5 characters, all digits; a dotted group followed by ':' and n
\* digits is accepted as it is for n from 1 to 5 and rejected for n of 6
\* or more.
C9_AcceptedPort ==
    vpPc = "done" =>
        /\ vpOk =>
              LET parts == SplitColon(vpOut)
              IN  /\ Len(parts) = 2
                  /\ Len(parts[2]) \in 1..5
                  /\ \A i \in 1..Len(parts[2]) : parts[2][i] \in Digits
        /\ \A n \in 1..MaxPortDigits :
              vpRaw = IP1234 \o <<":">> \o Nines(n) =>
                  IF n <= 5 THEN vpOk /\ vpOut = vpRaw ELSE ~vpOk

\* 1.2.3.4:99999 was accepted
C9_Witness ==
    /\ vpPc = "done"
    /\ vpRaw = IP1234 \o <<":">> \o Nines(5)
    /\ vpOk

\* C10: an accepted address splits on ':' into exactly two non-empty parts.
C10_TwoNonEmptySegments ==
    (vpPc = "done" /\ vpOk) =>
        LET parts == SplitColon(vpOut)
        IN  Len(parts) = 2 /\ parts[1] # <<>> /\ parts[2] # <<>>

----------------------------------------------------------------------------
(* The priority order of normalizeProxy, checked under SpecValid *)

\* the text behind the scheme prefixes
StrippedOf(raw) ==
    TrimPrefix(TrimPrefix(TrimPrefix(TrimPrefix(raw,
        SchemeHTTP), SchemeHTTPS), SchemeSOCKS4), SchemeSOCKS5)

\* the first non-empty text of a list, or `dflt`
RECURSIVE FirstPopulated(_, _)
FirstPopulated(texts, dflt) ==
    IF texts = <<>> THEN dflt
    ELSE IF texts[1] # <<>> THEN texts[1]
    ELSE FirstPopulated(Tail(texts), dflt)

\* the text is a JSON document whose data array is not empty
ParsesWithData(p) ==
    /\ HasPrefix(p, <<"{">>)
    /\ ~Unmarshal(p).err
    /\ Len(Unmarshal(p).Data) > 0

FromFirstElement(e) ==
    e.IP \o <<":">> \o
    FirstPopulated(<<e.Port, e.ProxyPort, e.PortNum, e.PortNumber>>, <<"8", "0">>)

\* the digits from position i on, `most` of them at most
DigitsFrom(s, i, most) == SubSeq(s, i, i + Min(DigitRun(s, i), most) - 1)

\* the first run of digits of the text, whole, or cut to `most` digits
FirstDigitRun(p, most) ==
    IF \A i \in 1..Len(p) : p[i] \notin Digits THEN <<>>
    ELSE DigitsFrom(p, FirstOf({i \in 1..Len(p) : p[i] \in Digits}), most)

\* the four stages in their order, for the text p behind the scheme
InPriorityOrder(p, most) ==
    IF ParsesWithData(p) THEN FromFirstElement(Unmarshal(p).Data[1])
    ELSE IF FindIPPort(p) # <<>> THEN FindIPPort(p)[1] \o <<":">> \o FindIPPort(p)[2]
    ELSE IF FindIP(p) # <<>> /\ FirstDigitRun(p, most) # <<>>
         THEN FindIP(p) \o <<":">> \o FirstDigitRun(p, most)
    ELSE <<>>

\* C11 as stated: normalizeProxy returns what the four stages give in their
\* order, the last stage joining the first dotted group with the first run
\* of digits of the text.
C11_AsStated ==
    vpPc = "done" => vpNorm = InPriorityOrder(StrippedOf(vpRaw), Len(vpRaw))

\* C11: normalizeProxy returns what the four stages give in their order
\* (JSON with a non-empty data array, then the first strict ip:port match,
\* then the first dotted group joined with the first run of digits, then
\* the empty string), the run of digits of the third stage being cut to its
\* first five digits.
C11_PriorityOrder ==
    vpPc = "done" => vpNorm = InPriorityOrder(StrippedOf(vpRaw), 5)

\* a line whose first run of digits is longer than five digits went through
\* the third stage
C11_Witness ==
    /\ vpPc = "done"
    /\ vpNorm # <<>>
    /\ vpNorm = InPriorityOrder(StrippedOf(vpRaw), 5)
    /\ vpNorm # InPriorityOrder(StrippedOf(vpRaw), Len(vpRaw))

----------------------------------------------------------------------------
(* The candidates CheckProxies receives, checked under Spec *)

\* the pieces of s between the occurrences of the character c
RECURSIVE SplitOn(_, _)
SplitOn(s, c) ==
    IF \A i \in 1..Len(s) : s[i] # c THEN <<s>>
    ELSE <<SubSeq(s, 1, FirstOf({i \in 1..Len(s) : s[i] = c}) - 1)>> \o
         SplitOn(SubSeq(s, FirstOf({i \in 1..Len(s) : s[i] = c}) + 1, Len(s)), c)

AllDigits(s) == s # <<>> /\ \A i \in 1..Len(s) : s[i] \in Digits

FourGroups(groups) ==
    Len(groups) = 4 /\ \A i \in 1..Len(groups) : AllDigits(groups[i])

TwoCanonicalParts(parts) ==
    /\ Len(parts) = 2
    /\ FourGroups(SplitOn(parts[1], "."))
    /\ AllDigits(parts[2])
    /\ Len(parts[2]) <= 5

\* exactly one colon, four dot-separated decimal groups before it and 1 to
\* 5 digits after it
Canonical(s) == TwoCanonicalParts(SplitOn(s, ":"))

\* CheckProxies has been called with proxyLists
HandedOver == mainPc \in {"spawn", "wait", "close", "returned", "exited"}

\* C12: every candidate CheckProxies was called with is a canonical
\* address, the candidates merged from the existing output files included.
C12_CandidatesCanonical ==
    HandedOver =>
        \A f \in Fam : \A i \in 1..Len(proxyLists[f]) : Canonical(proxyLists[f][i])

----------------------------------------------------------------------------
(* The classification of testProxy, checked under SpecProbe *)

\* C13: in basic mode the candidate is working exactly when the single GET
\* ended without a transport error or timeout and with status 200, and the
\* result holds no egress address, no anonymity and no location.
C13_BasicClassification ==
    (tpPc = "done" /\ ~tpStrict) =>
        /\ tpOut.Working <=> (~tpIn.doErr /\ tpIn.status = 200)
        /\ tpOut.ProxyIP = <<>>
        /\ tpOut.Anonymous = FALSE
        /\ tpOut.Location = NoLocation

\* a basic check that got a 200 was classified working
C13_Witness ==
    /\ tpPc = "done" /\ ~tpStrict
    /\ ~tpIn.doErr /\ tpIn.status = 200
    /\ tpOut.Working

GeoOK == tpIn.geo = "success" /\ tpIn.query # <<>>

\* C14 as stated: in strict mode the candidate is working exactly when the
\* geolocation lookup succeeded with a non-empty egress address and the
\* two probes took less than two seconds, whatever the headers probe gave.
C14_AsStated ==
    (tpPc = "done" /\ tpStrict) =>
        (tpOut.Working <=> (GeoOK /\ tpIn.ms < StrictLimitMs))

\* C14: in strict mode the candidate is working exactly when the
\* geolocation lookup succeeded with a non-empty egress address, the
\* headers probe was answered with a JSON document, and the two probes took
\* less than two seconds; a candidate that takes two seconds or more is
\* rejected.
C14_StrictClassification ==
    (tpPc = "done" /\ tpStrict) =>
        /\ tpOut.Working <=> (GeoOK /\ tpIn.hdr = "ok" /\ tpIn.ms < StrictLimitMs)
        /\ tpIn.ms >= StrictLimitMs => ~tpOut.Working

\* a strict check with a good geolocation answer in less than two seconds
\* and a failed headers probe was rejected
C14_Witness ==
    /\ tpPc = "done" /\ tpStrict
    /\ GeoOK /\ tpIn.ms < StrictLimitMs /\ tpIn.hdr # "ok"
    /\ ~tpOut.Working

----------------------------------------------------------------------------
(* The detailed-output flag without strict checking, checked under Spec *)

\* C15: in a run with strict checking off, whatever the detailed-output
\* flag, no header row is written to an output and every line of an output
\* is the bare address of a candidate of that family.
C15_DetailedNeedsStrict ==
    (HandedOver /\ ~StrictCheck) =>
        \A f \in Fam : \A i \in 1..Len(file[f]) :
            /\ file[f][i] # HeaderLine
            /\ \E j \in 1..Len(proxyLists[f]) : file[f][i] = ProxyOf(<<f, j>>)

\* a run with --detailed and without --strict has returned with a line in
\* an output
C15_Witness ==
    /\ mainPc = "returned"
    /\ ~StrictCheck /\ DetailedOutput
    /\ \E f \in Fam : file[f] # <<>>

----------------------------------------------------------------------------
(* The timeouts of a run, checked under SpecConfig *)

NoTimeoutConfigured == lcFile.Timeout = 0 /\ lcFile.ConnectTimeout = 0

\* C16: when config.yaml sets no timeout, the configuration the run uses
\* (after main has applied the flags) has the 3 s request and 3 s connect
\* timeouts if its StrictCheck is on and the 10 s request and 5 s connect
\* timeouts if it is off.
C16_TimeoutsFollowMode ==
    (lcPc = "flags" /\ NoTimeoutConfigured) =>
        IF lcCfg.StrictCheck
        THEN /\ lcCfg.Timeout = StrictTimeout
             /\ lcCfg.ConnectTimeout = StrictConnectTimeout
        ELSE /\ lcCfg.Timeout = NormalTimeout
             /\ lcCfg.ConnectTimeout = NormalConnectTimeout

----------------------------------------------------------------------------
(* Failing sources in ScrapeProxies, checked under SpecScrapeFair *)

OkSources == {i \in 1..scUrls : srcFetched[i][1] = "ok"}

FailedSources == {i \in 1..scUrls : srcFetched[i][1] = "fail"}

\* the orders in which the sources of S can have appended
Orders(S) ==
    {o \in [1..Cardinality(S) -> S] :
        \A a, b \in 1..Cardinality(S) : a # b => o[a] # o[b]}

\* the accepted lines of the bodies of the sources, in the order o
RECURSIVE ConcatIn(_)
ConcatIn(o) ==
    IF o = <<>> THEN <<>>
    ELSE ValidLines(srcFetched[o[1]][2]) \o ConcatIn(Tail(o))

\* when ScrapeProxies has returned, every source goroutine has finished,
\* done is closed, and the returned list is made of the accepted lines of
\* every source that answered, in the order the sources finished, and of
\* nothing else
C19_AtReturn ==
    scPc = "returned" =>
        /\ \A i \in 1..scUrls : srcPc[i] = "done"
        /\ OkSources \cup FailedSources = 1..scUrls
        /\ \E o \in Orders(OkSources) : scProxies = ConcatIn(o)
        /\ completedURLs = Cardinality(OkSources)
        /\ doneClosed

\* C19: a source that fails contributes nothing and does not keep the
\* other sources from contributing; ScrapeProxies returns, and only after
\* every source goroutine has finished, whether it failed or not; and the
\* progress goroutine stops in both cases.
C19_FailuresContained ==
    /\ [](C19_AtReturn)
    /\ <>(scPc = "returned")
    /\ <>[](repPc = "stopped")

\* ScrapeProxies has returned the lines of one source although another
\* source failed, and the progress goroutine has stopped
C19_Witness ==
    /\ scPc = "returned"
    /\ FailedSources # {}
    /\ OkSources # {}
    /\ scProxies # <<>>
    /\ repPc = "stopped"

----------------------------------------------------------------------------
(* The pools of CheckProxies and displayProgress, checked under Spec *)

\* the candidates of family f that CheckProxies starts a goroutine for
FamGIDs(f) == {<<f, i>> : i \in 1..Len(proxyLists[f])}

\* the candidates of family f between `sem <- struct{}{}` and `<-sem`
Holding(f) ==
    {g \in FamGIDs(f) :
        gpc[g] \in {"check", "send", "upd", "upd_in", "app", "app_in", "fin"}}

\* the candidates of family f inside their dial and probe
Checking(f) == {g \in FamGIDs(f) : gpc[g] = "check"}

\* C17: the candidates of a family between acquiring and releasing a slot
\* are the values buffered in the family's semaphore and never more than
\* the family's limit; a candidate that is in, or past, its dial and probe
\* has acquired a slot before.
C17_PoolBound ==
    \A f \in Fam :
        /\ sem[f] = Cardinality(Holding(f))
        /\ sem[f] <= Concurrent[f]
        /\ \A g \in FamGIDs(f) :
              attempts[g] > 0 => gpc[g] \notin {"unborn", "start"}

\* the pool of a family is full while another candidate of the family
\* waits for a slot
C17_Witness ==
    \E f \in Fam :
        /\ Cardinality(Holding(f)) = Concurrent[f]
        /\ \E g \in FamGIDs(f) : gpc[g] = "start"

\* C18: when the run has ended, displayProgress has left its loop and
\* printed the final summary.
C18_SummaryBeforeExit ==
    mainPc = "exited" => dpPc = "done"

\* C20: the slots taken in a family's semaphore are those of the candidates
\* inside their dial and probe: a candidate holds none while it waits for a
\* slot, for room in ResultChan, for progressMu, or for the file mutex and
\* its append.
C20_SlotOnlyDuringCheck ==
    \A f \in Fam : sem[f] = Cardinality(Checking(f))

----------------------------------------------------------------------------
(* The independence of the two pools, checked under SpecFair *)

\* the pool of family f has no free slot
PoolFull(f) == sem[f] = Concurrent[f]

\* C21: while the process runs, a candidate that waits for a slot can take
\* one exactly when its own family's pool has a free slot, whatever the
\* other family's pool holds: no candidate waits for a slot of the other
\* family's pool.
C21_PoolsIndependent ==
    ProcessAlive =>
        \A f \in Fam : \A g \in FamGIDs(f) :
            gpc[g] = "start" => (ENABLED Acquire(g) <=> ~PoolFull(f))

\* every slot of one family is held by candidates that are still waiting
\* for or inside their dial and probe, and a candidate of the other family
\* has taken a slot of its own pool, run its check and finished
C21_Witness ==
    \E f \in Fam :
        /\ PoolFull(f)
        /\ \A g \in FamGIDs(f) : gpc[g] \in {"start", "check"}
        /\ \E h \in FamGIDs(OtherFam(f)) : gpc[h] = "done"

----------------------------------------------------------------------------
(* The termination of CheckProxies, checked under SpecDrain *)

\* main's drain goroutine ranges over ResultChan from before the call of
\* CheckProxies until the channel is closed
DrainReady ==
    mainPc \in {"cp_begin", "spawn", "wait", "close"} => consPc = "ranging"

AllTerminal == \A g \in LiveGIDs : gpc[g] = "done"

\* C22: under fair scheduling, with both limits at least 1 and the drain
\* goroutine of main receiving, CheckProxies, from any point before its
\* wg.Wait() is over, eventually returns with every candidate in its
\* terminal state and every slot and mutex free; a goroutine that stayed
\* blocked on the full result channel, on a slot or on a mutex would never
\* become terminal.
C22_Terminates ==
    /\ [](DrainReady)
    /\ [](\A f \in Fam : Concurrent[f] >= 1)
    /\ (mainPc \in {"cp_begin", "spawn", "wait"}) ~>
          (/\ mainPc = "returned"
           /\ AllTerminal
           /\ progressMu = NoOne
           /\ \A f \in Fam : sem[f] = 0 /\ fileMu[f] = NoOne)

\* a check goroutine has run its probe and is blocked on the send, behind
\* ResultChanCap buffered results of goroutines that have returned, while
\* CheckProxies waits in wg.Wait()
C22_Witness ==
    /\ mainPc = "wait"
    /\ Len(ResultChan) = ResultChanCap
    /\ \E g \in LiveGIDs : gpc[g] = "send" /\ attempts[g] = 1
    /\ \E h \in LiveGIDs : gpc[h] = "done" /\ published[h] = 1

----------------------------------------------------------------------------
(* The header rows of strict+detailed mode, checked under Spec *)

\* the candidates of family f whose line was appended to the output
AppendedOf(f) == {g \in FamGIDs(f) : appended[g] = 1}

\* C23: in strict+detailed mode no check goroutine exists, and nothing has
\* been appended, until CheckProxies has written the header rows; from then
\* on, in every state, the header row is the first line of each output and
\* no appended line is missing from its output.
C23_HeaderFirst ==
    (StrictCheck /\ DetailedOutput) =>
        /\ mainPc \in {"src_http", "src_socks5", "stopped", "start",
                       "clear_http", "clear_socks5", "new_checker",
                       "cp_begin"} =>
              \A g \in GIDs : gpc[g] = "unborn" /\ appended[g] = 0
        /\ mainPc \in {"spawn", "wait", "close", "returned", "exited"} =>
              \A f \in Fam :
                  /\ Len(file[f]) >= Cardinality(AppendedOf(f))
                  /\ file[f] # <<>> /\ file[f][1] = HeaderLine

----------------------------------------------------------------------------
(* The file mutexes of AppendLine, checked under SpecFair *)

\* the candidates of family f between mu.Lock() and the deferred Unlock of
\* AppendLine
Appending(f) == {g \in FamGIDs(f) : gpc[g] = "app_in"}

\* C24: at most one candidate of a family is inside AppendLine's locked
\* section, and it is the holder of the family's mutex; a candidate that
\* waits for the mutex gets through exactly when its own family's mutex is
\* free, whoever holds the other family's.
C24_AppendExclusive ==
    \A f \in Fam :
        /\ Cardinality(Appending(f)) <= 1
        /\ \A g \in FamGIDs(f) : gpc[g] = "app_in" <=> fileMu[f] = g
        /\ ProcessAlive =>
              \A g \in FamGIDs(f) :
                  gpc[g] = "app" => (ENABLED AppendLock(g) <=> fileMu[f] = NoOne)

\* one candidate is inside the locked section while another candidate of
\* the same family waits for the mutex
C24_Witness ==
    \E f \in Fam : \E g, h \in FamGIDs(f) :
        /\ gpc[g] = "app_in" /\ fileMu[f] = g
        /\ gpc[h] = "app"

----------------------------------------------------------------------------
(* The order of reading, truncating and appending in main, checked under   *)
(* Spec                                                                    *)

\* no check goroutine was started and no line was appended
NothingChecked ==
    \A g \in GIDs : gpc[g] = "unborn" /\ attempts[g] = 0 /\ appended[g] = 0

C25_State ==
    /\ mainPc \in {"src_http", "src_socks5", "stopped", "start", "clear_http",
                   "clear_socks5", "aborted", "new_checker", "cp_begin"} =>
          NothingChecked
    /\ mainPc \in {"new_checker", "cp_begin"} => \A f \in Fam : file[f] = <<>>

C25_Step ==
    /\ \A f \in Fam :
          ~HasPrefix(file'[f], file[f]) =>
              /\ mainPc \in {"clear_http", "clear_socks5"}
              /\ file'[f] = <<>>
              /\ \A l \in Range(ScannedLines(file[f])) : l \in Range(proxyLists[f])
              /\ NothingChecked
    /\ mainPc \in {"src_http", "src_socks5"} => file' = file

\* C25: a step that removes lines from an output file is main's truncation
\* of that file, taken when every line of the file, trimmed and neither
\* empty nor a comment, is among the family's candidates; both files are
\* empty when the checker is created, before any check goroutine starts and
\* before any append; and the steps up to a stop for an unreadable source
\* list leave both files as they are.
C25_ReadThenTruncate == [](C25_State) /\ [][C25_Step]_vars

----------------
(* The counters of the checking session, checked under Spec *)

C26_State ==
    progressMu = NoOne =>
        \A f \in Fam : 0 <= working[f] /\ working[f] <= checked[f]
                                       /\ checked[f] <= total[f]

\* the step is taken by the check goroutine of candidate g
StepOf(g) == gpc'[g] # gpc[g]

C26_Step ==
    /\ \A f \in Fam : checked'[f] >= checked[f] /\ working'[f] >= working[f]
    /\ \A g \in GIDs :
          StepOf(g) => /\ checked'[OtherFam(g[1])] = checked[OtherFam(g[1])]
                       /\ working'[OtherFam(g[1])] = working[OtherFam(g[1])]
                       /\ total' = total

\* C26: whenever progressMu is free, each family has
\* 0 <= working <= checked <= total; no step decreases a checked or working
\* counter, and a step of a candidate's check leaves the other family's
\* counters as they are.
C26_CountersOrdered == [](C26_State) /\ [][C26_Step]_vars

\* a snapshot in the middle of a run: progressMu is free, a family has a
\* working candidate counted while a check of the other family is still
\* outstanding
C26_Witness ==
    /\ progressMu = NoOne /\ mainPc = "wait"
    /\ \E f \in Fam : /\ working[f] = 1 /\ checked[f] = 1
                      /\ checked[OtherFam(f)] < total[OtherFam(f)]

----------------------------------------------------------------------------
(* The list ScrapeProxies returns, checked under SpecScrape *)

\* the sources that have appended their accepted lines
AppendedSources ==
    {i \in 1..scUrls : srcFetched[i][1] = "ok" /\ srcPc[i] \in {"fin", "rel", "done"}}

\* the number of accepted lines of the bodies of the sources of S
RECURSIVE AcceptedCount(_)
AcceptedCount(S) ==
    IF S = {} THEN 0
    ELSE LET i == CHOOSE x \in S : TRUE
         IN  Len(ValidLines(srcFetched[i][2])) + AcceptedCount(S \ {i})

\* C27: the shared list is at every moment the accepted lines of the
\* sources that have appended, one contiguous block per source in body line
\* order, in some order of the sources; its length is the sum of their
\* accepted counts; and when ScrapeProxies returns, the sources that have
\* appended are all the sources that were fetched.
C27_BlocksPerSource ==
    /\ \E o \in Orders(AppendedSources) : scProxies = ConcatIn(o)
    /\ Len(scProxies) = AcceptedCount(AppendedSources)
    /\ scMu = NoOne => /\ totalFound = Len(scProxies)
                       /\ completedURLs = Cardinality(AppendedSources)
    /\ scPc = "returned" => AppendedSources = OkSources

\* ScrapeProxies has returned the block of the second source before the
\* block of the first, a list that differs from the one in URL order
C27_Witness ==
    /\ scPc = "returned"
    /\ OkSources = {1, 2}
    /\ scProxies = ConcatIn(<<2, 1>>)
    /\ scProxies # ConcatIn(<<1, 2>>)

====
